---- MODULE Spec2Model ----
(***************************************************************************)
(* Posture detector of focusapp: MediaPipePoseDetector                     *)
(* (src/lib/mediapipe-pose.ts).                                            *)
(*                                                                         *)
(* Numbers are fixed point, chosen so that every quantity the code         *)
(* computes from the modelled inputs is an exact integer:                  *)
(*   coordinates   hundredths of the normalized image unit (0.01 = 1)      *)
(*   visibility    hundredths (0.6 = 60); NoVisibility = field absent      *)
(*   angles        1/Deg of a degree; a raw angle is a multiple of 60      *)
(*                 units, so the mean of 1..5 raw angles is an integer     *)
(*   shoulder      1/HeightUnit of the normalized unit; a raw height is a  *)
(*   height        multiple of 60 units                                    *)
(*   confidence    1/One                                                   *)
(* Math.atan2 is modelled to the nearest whole degree.                     *)
(***************************************************************************)
EXTENDS Integers, Sequences, FiniteSets, TLC

\* ------------------------------------------------------------------------
\* Bounds of the model
\* ------------------------------------------------------------------------
MaxClock == 1
MaxInFlight == 2
MaxHistory == 2
MaxLoading == 1
MaxPushes == 6
MaxTimers == 2
MaxTime == 13

\* ------------------------------------------------------------------------
\* Fixed-point scales
\* ------------------------------------------------------------------------
Deg == 180
HeightUnit == 12000
One == 21600
Pct(n) == (n * One) \div 100

\* ------------------------------------------------------------------------
\* Program constants
\* ------------------------------------------------------------------------
SlouchThresholdTooLow == 40 - 10
SLOUCH_ANGLE_THRESHOLD == 40
HEAD_TILT_THRESHOLD == 20
HEAD_TURN_THRESHOLD == 30
EYE_VISIBILITY_THRESHOLD == 60
CONFIDENCE_THRESHOLD == 60
SMOOTHING_WINDOW_SIZE == 5
\* DEVIATION_THRESHOLD_MULTIPLIER = 1.5 = 3 / 2
DEVIATION_THRESHOLD_MULTIPLIER_NUM == 3
DEVIATION_THRESHOLD_MULTIPLIER_DEN == 2
\* the 0.01 added to denominators, in coordinate units
EPSILON == 1
\* const shoulderHeightThreshold = 0.05, in hundredths
SHOULDER_HEIGHT_THRESHOLD == 5
\* eyes-invisible branch: Math.abs(headPitch) > 15 || headTiltAngle > 15
EYES_HIDDEN_DOWN_ANGLE == 15

NoVisibility == -1

\* usePosture: the change filter of the detection loop
DEFAULT_DETECTION_FPS == 10
ANGLE_CHANGE_THRESHOLD == 2
\* CONFIDENCE_CHANGE_THRESHOLD = 0.1, in hundredths
CONFIDENCE_CHANGE_THRESHOLD == 10
\* milliseconds
MAX_UPDATE_INTERVAL == 1000

\* ------------------------------------------------------------------------
\* Arithmetic helpers
\* ------------------------------------------------------------------------
Abs(n) == IF n < 0 THEN -n ELSE n
Min(a, b) == IF a < b THEN a ELSE b
Max(a, b) == IF a > b THEN a ELSE b

\* tan((k + 0.5) degrees) * 10000 for k = 0..89 (TanHalf[k + 1])
TanHalf ==
  << 87, 262, 437, 612, 787, 963, 1139, 1317, 1495, 1673, 1853, 2035, 2217,
     2401, 2586, 2773, 2962, 3153, 3346, 3541, 3739, 3939, 4142, 4348, 4557,
     4770, 4986, 5206, 5430, 5658, 5890, 6128, 6371, 6619, 6873, 7133, 7400,
     7673, 7954, 8243, 8541, 8847, 9163, 9490, 9827, 10176, 10538, 10913,
     11303, 11708, 12131, 12572, 13032, 13514, 14019, 14550, 15108, 15697,
     16319, 16977, 17675, 18418, 19210, 20057, 20965, 21943, 22998, 24142,
     25386, 26746, 28239, 29887, 31716, 33759, 36059, 38667, 41653, 45107,
     49152, 53955, 59758, 66912, 75958, 87769, 103854, 127062, 163499,
     229038, 381885, 1145887 >>

\* (Math.atan2(y, x) * 180) / Math.PI for x >= 0, to the nearest whole
\* degree, in angle units.  atan2(0, 0) = 0 and atan2(y, 0) = +-90.
Atan2Degrees(y, x) ==
  LET a == Abs(y)
      d == IF x = 0
             THEN (IF a = 0 THEN 0 ELSE 90)
             ELSE Cardinality({k \in 1..90 : a * 10000 >= TanHalf[k] * x})
  IN  IF y < 0 THEN -(d * Deg) ELSE d * Deg

\* (landmark.visibility || 0)
Visibility(landmark) ==
  IF landmark.visibility = NoVisibility THEN 0 ELSE landmark.visibility

\* ------------------------------------------------------------------------
\* Geometry calculators
\* ------------------------------------------------------------------------
\* atan2(shoulderMid.y - earMid.y, |earMid.x - shoulderMid.x| + 0.01);
\* both arguments are doubled to keep the midpoints integral.
calculateSlouchAngle(leftShoulder, rightShoulder, leftEar, rightEar) ==
  LET horizontalDistance2 ==
        Abs((leftEar.x + rightEar.x) - (leftShoulder.x + rightShoulder.x))
      verticalDistance2 ==
        (leftShoulder.y + rightShoulder.y) - (leftEar.y + rightEar.y)
  IN  Atan2Degrees(verticalDistance2, horizontalDistance2 + 2 * EPSILON)

\* ((nose.y - shoulderY) / 0.15) * 20 degrees, no clamping.
\* headDrop2 is the head drop in half hundredths: degrees = headDrop2 * 2/3.
calculateHeadTilt(nose, leftShoulder, rightShoulder) ==
  LET headDrop2 == 2 * nose.y - (leftShoulder.y + rightShoulder.y)
  IN  (headDrop2 * 2 * Deg) \div 3

\* atan2(eyeMid.y - earMid.y, |eyeMid.z - earMid.z| + 0.01), doubled.
calculateSagittalHeadTilt(leftEye, rightEye, leftEar, rightEar) ==
  LET dz2 == Abs((leftEye.z + rightEye.z) - (leftEar.z + rightEar.z))
               + 2 * EPSILON
      dy2 == (leftEye.y + rightEye.y) - (leftEar.y + rightEar.y)
  IN  Atan2Degrees(dy2, dz2)

\* atan2(|heightDifference|, horizontalDistance), signed by heightDifference.
calculateShoulderAlignment(leftShoulder, rightShoulder) ==
  LET heightDifference == leftShoulder.y - rightShoulder.y
      horizontalDistance == Abs(leftShoulder.x - rightShoulder.x)
      angleDegrees == Atan2Degrees(Abs(heightDifference), horizontalDistance)
  IN  IF heightDifference > 0 THEN angleDegrees ELSE -angleDegrees

\* (leftShoulder.y + rightShoulder.y) / 2, in height units.
calculateShoulderHeight(leftShoulder, rightShoulder) ==
  ((leftShoulder.y + rightShoulder.y) * HeightUnit) \div 200

\* yaw: atan2(faceCenterX - earCenterX, |faceCenterZ - earCenterZ| + 0.01),
\* both arguments multiplied by 6; pitch: atan2(eyeCenterY - earCenterY,
\* |earCenterZ - eyeCenterZ| + 0.01), doubled.
calculateHeadOrientation(landmarks) ==
  LET nose == landmarks.nose
      leftEye == landmarks.leftEye
      rightEye == landmarks.rightEye
      leftEar == landmarks.leftEar
      rightEar == landmarks.rightEar
      horizontalOffset6 ==
        2 * (leftEye.x + rightEye.x + nose.x) - 3 * (leftEar.x + rightEar.x)
      depthDifference6 ==
        Abs(2 * (leftEye.z + rightEye.z + nose.z)
              - 3 * (leftEar.z + rightEar.z))
      verticalDifference2 ==
        (leftEye.y + rightEye.y) - (leftEar.y + rightEar.y)
      depthForPitch2 ==
        Abs((leftEar.z + rightEar.z) - (leftEye.z + rightEye.z))
          + 2 * EPSILON
  IN  [ yaw   |-> Atan2Degrees(horizontalOffset6,
                               depthDifference6 + 6 * EPSILON),
        pitch |-> Atan2Degrees(verticalDifference2, depthForPitch2) ]

\* analyzeEyeVisibility judging the eyes by their average confidence
analyzeEyeVisibilityAverage(landmarks) ==
  LET leftEyeConfidence == Visibility(landmarks.leftEye)
      rightEyeConfidence == Visibility(landmarks.rightEye)
  IN  [ eyesVisible |->
          leftEyeConfidence + rightEyeConfidence
            > 2 * EYE_VISIBILITY_THRESHOLD,
        leftEyeConfidence |-> leftEyeConfidence,
        rightEyeConfidence |-> rightEyeConfidence ]

analyzeEyeVisibility(landmarks) ==
  LET leftEyeConfidence == Visibility(landmarks.leftEye)
      rightEyeConfidence == Visibility(landmarks.rightEye)
  IN  [ eyesVisible |->
          /\ leftEyeConfidence > EYE_VISIBILITY_THRESHOLD
          /\ rightEyeConfidence > EYE_VISIBILITY_THRESHOLD,
        leftEyeConfidence |-> leftEyeConfidence,
        rightEyeConfidence |-> rightEyeConfidence ]

\* a no-person analysis that claims no confidence
createNoPersonAnalysisUnsure ==
  [ type |-> "no-person", confidence |-> 0,
    slouchAngle |-> 0, headTiltAngle |-> 0, shoulderAlignment |-> 0,
    headYaw |-> 0, headPitch |-> 0 ]

createNoPersonAnalysis ==
  [ type |-> "no-person", confidence |-> Pct(95),
    slouchAngle |-> 0, headTiltAngle |-> 0, shoulderAlignment |-> 0,
    headYaw |-> 0, headPitch |-> 0 ]

\* ------------------------------------------------------------------------
\* Smoothing buffers
\* ------------------------------------------------------------------------
EmptySmoothingBuffer ==
  [ slouchAngles |-> << >>, headTiltAngles |-> << >>,
    shoulderAlignments |-> << >>, shoulderHeights |-> << >>,
    headYaws |-> << >>, headPitches |-> << >> ]

RECURSIVE SumSeq(_)
SumSeq(s) == IF s = << >> THEN 0 ELSE Head(s) + SumSeq(Tail(s))

\* addToSmoothingBuffer dividing by the window size instead of the length
addToSmoothingBufferFullWindow(buffer, newValue) ==
  LET pushed == Append(buffer, newValue)
      kept == IF Len(pushed) > SMOOTHING_WINDOW_SIZE
                THEN Tail(pushed) ELSE pushed
  IN  [ buffer |-> kept,
        average |-> SumSeq(kept) \div SMOOTHING_WINDOW_SIZE ]

\* addToSmoothingBuffer evicting the value just pushed instead of the oldest
addToSmoothingBufferDropsNewest(buffer, newValue) ==
  LET pushed == Append(buffer, newValue)
      kept == IF Len(pushed) > SMOOTHING_WINDOW_SIZE
                THEN SubSeq(pushed, 1, SMOOTHING_WINDOW_SIZE) ELSE pushed
  IN  [ buffer |-> kept, average |-> SumSeq(kept) \div Len(kept) ]

\* buffer.push(newValue); if (buffer.length > SMOOTHING_WINDOW_SIZE)
\* buffer.shift(); return sum / buffer.length
addToSmoothingBuffer(buffer, newValue) ==
  LET pushed == Append(buffer, newValue)
      kept == IF Len(pushed) > SMOOTHING_WINDOW_SIZE
                THEN Tail(pushed) ELSE pushed
  IN  [ buffer |-> kept, average |-> SumSeq(kept) \div Len(kept) ]

\* ------------------------------------------------------------------------
\* Classification
\* ------------------------------------------------------------------------
\* the visibility gate without the ears
hasGoodVisibilityNoEars(landmarks) ==
  /\ Visibility(landmarks.nose) > CONFIDENCE_THRESHOLD
  /\ Visibility(landmarks.leftShoulder) > CONFIDENCE_THRESHOLD
  /\ Visibility(landmarks.rightShoulder) > CONFIDENCE_THRESHOLD

\* analyzePosture's visibility gate (nose, shoulders, ears)
hasGoodVisibility(landmarks) ==
  /\ Visibility(landmarks.nose) > CONFIDENCE_THRESHOLD
  /\ Visibility(landmarks.leftShoulder) > CONFIDENCE_THRESHOLD
  /\ Visibility(landmarks.rightShoulder) > CONFIDENCE_THRESHOLD
  /\ Visibility(landmarks.leftEar) > CONFIDENCE_THRESHOLD
  /\ Visibility(landmarks.rightEar) > CONFIDENCE_THRESHOLD

\* The raw metrics of analyzePosture, before smoothing.
rawMetrics(landmarks) ==
  LET eyeData == analyzeEyeVisibility(landmarks)
      rawHeadOrientation == calculateHeadOrientation(landmarks)
  IN  [ rawSlouchAngle |->
          calculateSlouchAngle(landmarks.leftShoulder,
            landmarks.rightShoulder, landmarks.leftEar, landmarks.rightEar),
        rawHeadTiltAngle |->
          IF eyeData.eyesVisible
            THEN calculateSagittalHeadTilt(landmarks.leftEye,
                   landmarks.rightEye, landmarks.leftEar, landmarks.rightEar)
            ELSE calculateHeadTilt(landmarks.nose, landmarks.leftShoulder,
                   landmarks.rightShoulder),
        rawShoulderAlignment |->
          calculateShoulderAlignment(landmarks.leftShoulder,
            landmarks.rightShoulder),
        rawShoulderHeight |->
          calculateShoulderHeight(landmarks.leftShoulder,
            landmarks.rightShoulder),
        rawHeadYaw |-> rawHeadOrientation.yaw,
        rawHeadPitch |-> rawHeadOrientation.pitch ]

\* PRIORITY 1 of analyzePosture: the eyes are not visible.
eyesHiddenIssue(m) ==
  IF Abs(m.headPitch) > EYES_HIDDEN_DOWN_ANGLE * Deg
       \/ m.headTiltAngle > EYES_HIDDEN_DOWN_ANGLE * Deg
    THEN [ type |-> "looking-down", confidence |-> Pct(90) ]
    ELSE [ type |-> "looking-away", confidence |-> Pct(90) ]

\* a threshold scaled by DEVIATION_THRESHOLD_MULTIPLIER, in angle units
deviationThreshold(degrees) ==
  (degrees * Deg * DEVIATION_THRESHOLD_MULTIPLIER_NUM)
    \div DEVIATION_THRESHOLD_MULTIPLIER_DEN

\* 0.6 + angle / divisor without the cap at 0.95
angleConfidenceUncapped(angle, divisor) ==
  Pct(60) + ((One \div divisor) * angle) \div Deg

\* Math.min(0.95, 0.6 + angle / divisor), angle in angle units
angleConfidence(angle, divisor) ==
  Min(Pct(95), Pct(60) + ((One \div divisor) * angle) \div Deg)

\* calibratedIssue with the yaw rule tried before the shoulder-height rule
calibratedIssueYawFirst(m, b) ==
  LET slouchDeviation == Abs(m.slouchAngle - b.slouchAngle)
      headTiltDeviation == Abs(m.headTiltAngle - b.headTiltAngle)
      shoulderHeightDeviation == Abs(m.shoulderHeight - b.shoulderHeight)
      yawDeviation == Abs(m.headYaw - b.headYaw)
      pitchDeviation == Abs(m.headPitch - b.headPitch)
  IN  IF \/ m.slouchAngle < 40 * Deg
         \/ slouchDeviation > deviationThreshold(SLOUCH_ANGLE_THRESHOLD)
        THEN [ type |-> "slouching",
               confidence |->
                 angleConfidence(Max(40 * Deg - m.slouchAngle,
                                     slouchDeviation), 10) ]
      ELSE IF yawDeviation > deviationThreshold(HEAD_TURN_THRESHOLD)
        THEN [ type |-> "looking-away",
               confidence |-> angleConfidence(yawDeviation, 60) ]
      ELSE IF shoulderHeightDeviation * 100
                > SHOULDER_HEIGHT_THRESHOLD * HeightUnit
        THEN [ type |-> "slouching",
               confidence |->
                 Min(Pct(95),
                     Pct(60) + (One * 10 * shoulderHeightDeviation)
                                  \div HeightUnit) ]
      ELSE IF \/ pitchDeviation > deviationThreshold(HEAD_TILT_THRESHOLD)
              \/ headTiltDeviation > deviationThreshold(HEAD_TILT_THRESHOLD)
        THEN [ type |-> "looking-down",
               confidence |->
                 angleConfidence(Max(pitchDeviation, headTiltDeviation),
                                 40) ]
      ELSE [ type |-> "good-posture", confidence |-> Pct(90) ]

\* PRIORITY 2 of analyzePosture: deviations from the baseline b.
calibratedIssue(m, b) ==
  LET slouchDeviation == Abs(m.slouchAngle - b.slouchAngle)
      headTiltDeviation == Abs(m.headTiltAngle - b.headTiltAngle)
      shoulderHeightDeviation == Abs(m.shoulderHeight - b.shoulderHeight)
      yawDeviation == Abs(m.headYaw - b.headYaw)
      pitchDeviation == Abs(m.headPitch - b.headPitch)
      slouchThreshold == deviationThreshold(SLOUCH_ANGLE_THRESHOLD)
      headTiltThreshold == deviationThreshold(HEAD_TILT_THRESHOLD)
      headYawThreshold == deviationThreshold(HEAD_TURN_THRESHOLD)
      headPitchThreshold == deviationThreshold(HEAD_TILT_THRESHOLD)
  IN  IF m.slouchAngle < 40 * Deg \/ slouchDeviation > slouchThreshold
        THEN [ type |-> "slouching",
               confidence |->
                 angleConfidence(Max(40 * Deg - m.slouchAngle,
                                     slouchDeviation), 10) ]
      ELSE IF shoulderHeightDeviation * 100
                > SHOULDER_HEIGHT_THRESHOLD * HeightUnit
        THEN [ type |-> "slouching",
               confidence |->
                 Min(Pct(95),
                     Pct(60) + (One * 10 * shoulderHeightDeviation)
                                  \div HeightUnit) ]
      ELSE IF yawDeviation > headYawThreshold
        THEN [ type |-> "looking-away",
               confidence |-> angleConfidence(yawDeviation, 60) ]
      ELSE IF pitchDeviation > headPitchThreshold
                \/ headTiltDeviation > headTiltThreshold
        THEN [ type |-> "looking-down",
               confidence |->
                 angleConfidence(Max(pitchDeviation, headTiltDeviation),
                                 40) ]
      ELSE [ type |-> "good-posture", confidence |-> Pct(90) ]

\* fallbackIssue with the tilt rule tried before the yaw rule
fallbackIssueTiltFirst(m) ==
  IF m.slouchAngle < SLOUCH_ANGLE_THRESHOLD * Deg
    THEN [ type |-> "slouching",
           confidence |->
             angleConfidence(SLOUCH_ANGLE_THRESHOLD * Deg - m.slouchAngle,
                             10) ]
  ELSE IF m.headTiltAngle > HEAD_TILT_THRESHOLD * Deg
    THEN [ type |-> "looking-down",
           confidence |-> angleConfidence(m.headTiltAngle, 40) ]
  ELSE IF Abs(m.headYaw) > HEAD_TURN_THRESHOLD * Deg
    THEN [ type |-> "looking-away",
           confidence |-> angleConfidence(Abs(m.headYaw), 60) ]
  ELSE [ type |-> "good-posture", confidence |-> Pct(90) ]

\* PRIORITY 3 of analyzePosture: fixed thresholds, no calibration.
fallbackIssue(m) ==
  IF m.slouchAngle < SLOUCH_ANGLE_THRESHOLD * Deg
    THEN [ type |-> "slouching",
           confidence |->
             angleConfidence(SLOUCH_ANGLE_THRESHOLD * Deg - m.slouchAngle,
                             10) ]
  ELSE IF Abs(m.headYaw) > HEAD_TURN_THRESHOLD * Deg
    THEN [ type |-> "looking-away",
           confidence |-> angleConfidence(Abs(m.headYaw), 60) ]
  ELSE IF m.headTiltAngle > HEAD_TILT_THRESHOLD * Deg
    THEN [ type |-> "looking-down",
           confidence |-> angleConfidence(m.headTiltAngle, 40) ]
  ELSE [ type |-> "good-posture", confidence |-> Pct(90) ]

\* determineIssue with the baseline consulted before the eyes
determineIssueBaselineFirst(eyesVisible, m, baseline) ==
  IF baseline # << >> THEN calibratedIssue(m, baseline[1])
  ELSE IF ~eyesVisible THEN eyesHiddenIssue(m)
  ELSE fallbackIssue(m)

\* The priority chain of analyzePosture over the smoothed metrics m;
\* baseline is << >> (null) or << b >>.
determineIssue(eyesVisible, m, baseline) ==
  IF ~eyesVisible THEN eyesHiddenIssue(m)
  ELSE IF baseline # << >> THEN calibratedIssue(m, baseline[1])
  ELSE fallbackIssue(m)

\* analyzePosture returning the raw angles of the frame
analyzePostureRawAngles(landmarks, buffers, baseline) ==
  IF ~hasGoodVisibility(landmarks)
    THEN [ posture |-> createNoPersonAnalysis, smoothingBuffer |-> buffers ]
    ELSE
      LET eyeData == analyzeEyeVisibility(landmarks)
          raw == rawMetrics(landmarks)
          slouch == addToSmoothingBuffer(buffers.slouchAngles,
                                         raw.rawSlouchAngle)
          headTilt == addToSmoothingBuffer(buffers.headTiltAngles,
                                           raw.rawHeadTiltAngle)
          alignment == addToSmoothingBuffer(buffers.shoulderAlignments,
                                            raw.rawShoulderAlignment)
          height == addToSmoothingBuffer(buffers.shoulderHeights,
                                         raw.rawShoulderHeight)
          yaw == addToSmoothingBuffer(buffers.headYaws, raw.rawHeadYaw)
          pitch == addToSmoothingBuffer(buffers.headPitches,
                                        raw.rawHeadPitch)
          smoothed == [ slouchAngle |-> slouch.average,
                        headTiltAngle |-> headTilt.average,
                        shoulderAlignment |-> alignment.average,
                        shoulderHeight |-> height.average,
                        headYaw |-> yaw.average,
                        headPitch |-> pitch.average ]
          issue == determineIssue(eyeData.eyesVisible, smoothed, baseline)
      IN  [ posture |->
              [ type |-> issue.type, confidence |-> issue.confidence,
                slouchAngle |-> raw.rawSlouchAngle,
                headTiltAngle |-> raw.rawHeadTiltAngle,
                shoulderAlignment |-> raw.rawShoulderAlignment,
                headYaw |-> raw.rawHeadYaw,
                headPitch |-> raw.rawHeadPitch ],
            smoothingBuffer |->
              [ slouchAngles |-> slouch.buffer,
                headTiltAngles |-> headTilt.buffer,
                shoulderAlignments |-> alignment.buffer,
                shoulderHeights |-> height.buffer,
                headYaws |-> yaw.buffer,
                headPitches |-> pitch.buffer ] ]

\* analyzePosture(landmarks) on a detector whose fields are smoothingBuffer
\* and baseline: the returned PostureAnalysis and the buffers it leaves.
analyzePosture(landmarks, buffers, baseline) ==
  IF ~hasGoodVisibility(landmarks)
    THEN [ posture |-> createNoPersonAnalysis, smoothingBuffer |-> buffers ]
    ELSE
      LET eyeData == analyzeEyeVisibility(landmarks)
          raw == rawMetrics(landmarks)
          slouch == addToSmoothingBuffer(buffers.slouchAngles,
                                         raw.rawSlouchAngle)
          headTilt == addToSmoothingBuffer(buffers.headTiltAngles,
                                           raw.rawHeadTiltAngle)
          alignment == addToSmoothingBuffer(buffers.shoulderAlignments,
                                            raw.rawShoulderAlignment)
          height == addToSmoothingBuffer(buffers.shoulderHeights,
                                         raw.rawShoulderHeight)
          yaw == addToSmoothingBuffer(buffers.headYaws, raw.rawHeadYaw)
          pitch == addToSmoothingBuffer(buffers.headPitches,
                                        raw.rawHeadPitch)
          smoothed == [ slouchAngle |-> slouch.average,
                        headTiltAngle |-> headTilt.average,
                        shoulderAlignment |-> alignment.average,
                        shoulderHeight |-> height.average,
                        headYaw |-> yaw.average,
                        headPitch |-> pitch.average ]
          issue == determineIssue(eyeData.eyesVisible, smoothed, baseline)
      IN  [ posture |->
              [ type |-> issue.type, confidence |-> issue.confidence,
                slouchAngle |-> smoothed.slouchAngle,
                headTiltAngle |-> smoothed.headTiltAngle,
                shoulderAlignment |-> smoothed.shoulderAlignment,
                headYaw |-> smoothed.headYaw,
                headPitch |-> smoothed.headPitch ],
            smoothingBuffer |->
              [ slouchAngles |-> slouch.buffer,
                headTiltAngles |-> headTilt.buffer,
                shoulderAlignments |-> alignment.buffer,
                shoulderHeights |-> height.buffer,
                headYaws |-> yaw.buffer,
                headPitches |-> pitch.buffer ] ]

\* ------------------------------------------------------------------------
\* Calibration
\* ------------------------------------------------------------------------
\* calibrate's visibility check without the eyes
calibrateHasGoodVisibilityNoEyes(landmarks) ==
  /\ Visibility(landmarks.nose) > CONFIDENCE_THRESHOLD
  /\ Visibility(landmarks.leftShoulder) > CONFIDENCE_THRESHOLD
  /\ Visibility(landmarks.rightShoulder) > CONFIDENCE_THRESHOLD
  /\ Visibility(landmarks.leftEar) > CONFIDENCE_THRESHOLD
  /\ Visibility(landmarks.rightEar) > CONFIDENCE_THRESHOLD

\* calibrate's visibility check (nose, shoulders, ears, eyes)
calibrateHasGoodVisibility(landmarks) ==
  /\ Visibility(landmarks.nose) > CONFIDENCE_THRESHOLD
  /\ Visibility(landmarks.leftShoulder) > CONFIDENCE_THRESHOLD
  /\ Visibility(landmarks.rightShoulder) > CONFIDENCE_THRESHOLD
  /\ Visibility(landmarks.leftEar) > CONFIDENCE_THRESHOLD
  /\ Visibility(landmarks.rightEar) > CONFIDENCE_THRESHOLD
  /\ Visibility(landmarks.leftEye) > CONFIDENCE_THRESHOLD
  /\ Visibility(landmarks.rightEye) > CONFIDENCE_THRESHOLD

\* the baseline with the nose-based head tilt in place of the eye-based one
calibrationBaselineOfNoseTilt(landmarks, t) ==
  LET headOrientation == calculateHeadOrientation(landmarks)
  IN  [ slouchAngle |->
          calculateSlouchAngle(landmarks.leftShoulder,
            landmarks.rightShoulder, landmarks.leftEar, landmarks.rightEar),
        headTiltAngle |->
          calculateHeadTilt(landmarks.nose, landmarks.leftShoulder,
            landmarks.rightShoulder),
        shoulderAlignment |->
          calculateShoulderAlignment(landmarks.leftShoulder,
            landmarks.rightShoulder),
        shoulderHeight |->
          calculateShoulderHeight(landmarks.leftShoulder,
            landmarks.rightShoulder),
        headYaw |-> headOrientation.yaw,
        headPitch |-> headOrientation.pitch,
        timestamp |-> t ]

\* The CalibrationBaseline that calibrate stores at time t.
calibrationBaselineOf(landmarks, t) ==
  LET headOrientation == calculateHeadOrientation(landmarks)
  IN  [ slouchAngle |->
          calculateSlouchAngle(landmarks.leftShoulder,
            landmarks.rightShoulder, landmarks.leftEar, landmarks.rightEar),
        headTiltAngle |->
          calculateSagittalHeadTilt(landmarks.leftEye, landmarks.rightEye,
            landmarks.leftEar, landmarks.rightEar),
        shoulderAlignment |->
          calculateShoulderAlignment(landmarks.leftShoulder,
            landmarks.rightShoulder),
        shoulderHeight |->
          calculateShoulderHeight(landmarks.leftShoulder,
            landmarks.rightShoulder),
        headYaw |-> headOrientation.yaw,
        headPitch |-> headOrientation.pitch,
        timestamp |-> t ]

\* ------------------------------------------------------------------------
\* Landmark frames delivered by the pose source
\* ------------------------------------------------------------------------
\* Only the landmarks the detector reads are kept (nose 0, eyes 2 and 5,
\* ears 7 and 8, shoulders 11 and 12).
Landmark(x, y, z, v) == [ x |-> x, y |-> y, z |-> z, visibility |-> v ]

\* A person seen from the front: shoulders at height shoulderY around
\* x = 50, ears around earX at height earY and depth 0, eyes and nose
\* around faceX at depth -10.
Body(shoulderY, earX, earY, faceX, eyeY, noseY) ==
  [ nose          |-> Landmark(faceX, noseY, -10, 90),
    leftEye       |-> Landmark(faceX - 4, eyeY, -10, 90),
    rightEye      |-> Landmark(faceX + 4, eyeY, -10, 90),
    leftEar       |-> Landmark(earX - 8, earY, 0, 90),
    rightEar      |-> Landmark(earX + 8, earY, 0, 90),
    leftShoulder  |-> Landmark(35, shoulderY, 0, 90),
    rightShoulder |-> Landmark(65, shoulderY, 0, 90) ]

WithVisibility(frame, name, v) == [frame EXCEPT ![name].visibility = v]

\* upright, facing the camera: CVA 87, yaw 0, pitch 5
Upright == Body(60, 50, 40, 50, 41, 44)
\* forward head: CVA 35
ForwardHead == Body(60, 59, 53, 59, 54, 57)
\* head turned and bent down: yaw 50, pitch 39
Turned == Body(60, 50, 40, 63, 49, 52)
\* head bent down: pitch 39
BentDown == Body(60, 50, 40, 50, 49, 52)
\* slid down in the seat, head turned: everything 0.06 lower, yaw 50
SlidDown == Body(66, 50, 46, 63, 47, 50)
\* ears below the shoulder line: CVA -27
EarsLow == Body(60, 53, 62, 53, 63, 66)
\* upright, head and ears a little to the side: CVA 84, yaw 0, pitch 5
Shifted == Body(60, 51, 40, 51, 41, 44)
\* eyes hidden, otherwise upright
EyesHidden == WithVisibility(Upright, "leftEye", 60)
\* eyes hidden, head bent down
EyesHiddenDown == WithVisibility(BentDown, "rightEye", NoVisibility)
\* eyes hidden, nose below the shoulder line: nose-based tilt 16
EyesHiddenNoseLow ==
  WithVisibility(WithVisibility(Body(60, 50, 40, 50, 41, 72),
                                "leftEye", 30), "rightEye", 30)

GateLandmarks ==
  {"nose", "leftShoulder", "rightShoulder", "leftEar", "rightEar"}

\* frames that fail analyzePosture's visibility gate
HiddenFrames ==
  {WithVisibility(Upright, name, v) :
     name \in GateLandmarks, v \in {NoVisibility, 59}}
    \cup { WithVisibility(ForwardHead, "nose", 59),
           WithVisibility(EyesHiddenDown, "rightShoulder", NoVisibility) }

VisibleFrames ==
  { Upright, ForwardHead, Turned, BentDown, SlidDown, EarsLow,
    EyesHidden, EyesHiddenDown, EyesHiddenNoseLow }

\* frames of the classification runs
Frames == VisibleFrames \cup HiddenFrames

\* head a little forward: CVA 38, yaw 0, pitch 5
SlightSlouch == Body(60, 72, 42, 72, 43, 46)

\* frames of the classification runs: every visible frame, and one that
\* fails the visibility gate
ClassifyFrames ==
  VisibleFrames \cup { WithVisibility(Upright, "nose", NoVisibility) }

\* frames of the confidence runs
ConfidenceFrames == ClassifyFrames \cup { SlightSlouch }

\* frames of the gate runs: every frame that fails the visibility gate, and
\* two that pass it
GateFrames == HiddenFrames \cup { Upright, ForwardHead }

\* frames of the detection-loop runs
LoopFrames ==
  { Upright, ForwardHead, WithVisibility(Upright, "nose", NoVisibility) }

\* frames the camera delivers to the loop running on schedule: nobody, or
\* a person sitting still
ScheduledFrames == { << >>, << Upright >> }

\* frames of the change-filter runs: nobody, an upright person, and the
\* same person 3 degrees off
FilterFrames == { << >>, << Upright >>, << Shifted >> }

\* frames the camera delivers while operations interleave freely: a slouched
\* person and one whose nose is hidden
InterleavedFrames ==
  { ForwardHead, WithVisibility(Upright, "nose", NoVisibility) }

\* ------------------------------------------------------------------------
\* State
\* ------------------------------------------------------------------------
\* A nullable value is << >> (null) or << v >>.
VARIABLES
  pose,                \* "null" or "open": the MediaPipe instance
  isInitialized,
  lastResult,          \* nullable [poseLandmarks: nullable landmarks]
  isProcessing,
  calibrationBaseline, \* nullable CalibrationBaseline
  smoothingBuffer,
  loading,             \* initialize() calls awaiting the import
  inFlight,            \* detectPose() calls awaiting pose.send
  now,                 \* the clock read by Date.now / performance.now
  out,                 \* the call that returned last, and what it returned
  smoothingTrace,      \* one buffer on its own: the values pushed to it
                       \* and the means the pushes returned
  pushedSinceReset,    \* the raw metrics analyzePosture has pushed since
                       \* the buffers were last emptied, oldest first
  \* the usePosture hook (src/unnamed/part_004)
  state,               \* "idle", "loading", "ready", "detecting", "error"
  hookError,           \* error: "null" or the message set
  hookResult,          \* result: nullable detection result
  isCalibrated,
  calibrationData,     \* nullable CalibrationBaseline
  detectorRef,         \* TRUE when detectorRef.current holds the detector
  detectionIntervalRef, \* "null", "live" (id of an installed timer) or
                       \* "cleared" (id of a timer that was cleared)
  videoElementRef,     \* TRUE when videoElementRef.current holds the video
  isMountedRef,
  lastUpdateRef,       \* nullable detection result
  lastUpdateTimeRef,
  isCalibratedRef,
  timers,              \* interval timers installed and not cleared
  awaiting,            \* the hook function awaiting pose.send: "none",
                       \* "loop", "start" or "calibrate"
  microtask,           \* the continuation that runs next: "none",
                       \* "calibrate" or "dispose"
  \* the useCamera hook (src/hooks/use-camera.ts)
  cameraState,         \* state: "idle", "requesting", "active", "paused",
                       \* "error"
  cameraError,         \* error: "null" or the type of the CameraError
  stream,              \* nullable MediaStream, a stream being its number
  cameraIsMountedRef,  \* isMountedRef.current of useCamera
  isSupported,
  cameraMounted,       \* TRUE until the component unmounts
  pending,             \* startCamera calls awaiting Promise.race
  abandoned,           \* getUserMedia requests that lost the race to the
                       \* timeout and have not settled yet
  obtained,            \* MediaStreams getUserMedia has resolved with
  stoppedStreams,      \* the streams whose tracks were all stopped
  disabledStreams,     \* the streams whose video tracks are disabled
  \* the Electron main process (src/electron/main.js)
  platform,            \* process.platform, "none" before the app is ready
  mediaAccess,         \* the camera access status macOS holds
  calls,               \* where each call of requestMediaPermissions is:
                       \* "none", "status", "ask" or "done"
  ipcResult            \* for each invocation of requestCameraPermission,
                       \* the value its promise resolved to, if it did

detector ==
  << pose, isInitialized, lastResult, isProcessing, calibrationBaseline,
     smoothingBuffer >>
vars ==
  << pose, isInitialized, lastResult, isProcessing, calibrationBaseline,
     smoothingBuffer, loading, inFlight, now, out, smoothingTrace,
     pushedSinceReset, state, hookError, hookResult, isCalibrated,
     calibrationData, detectorRef, detectionIntervalRef, videoElementRef,
     isMountedRef, lastUpdateRef, lastUpdateTimeRef, isCalibratedRef,
     timers, awaiting, microtask, cameraState, cameraError, stream,
     cameraIsMountedRef, isSupported, cameraMounted, pending, abandoned,
     obtained, stoppedStreams, disabledStreams, platform, mediaAccess,
     calls, ipcResult >>

\* the records kept beside the detector
observed == << smoothingTrace, pushedSinceReset >>

\* the state of the usePosture hook
hook ==
  << state, hookError, hookResult, isCalibrated, calibrationData,
     detectorRef, detectionIntervalRef, videoElementRef, isMountedRef,
     lastUpdateRef, lastUpdateTimeRef, isCalibratedRef, timers, awaiting,
     microtask >>

\* the state of the useCamera hook and of the streams it was given
cameraHook ==
  << cameraState, cameraError, stream, cameraIsMountedRef, isSupported,
     cameraMounted, pending, abandoned, obtained, stoppedStreams,
     disabledStreams >>

\* the state of the Electron main process and of the permission bridge
bridge == << platform, mediaAccess, calls, ipcResult >>

\* the camera side: the useCamera hook and the permission bridge
camera == << cameraHook, bridge >>

\* invocations of requestCameraPermission in one run
MaxInvocations == 3
Invocations == 1..MaxInvocations

\* What a call returned: error is "none" or the condition raised, path the
\* return statement of detectPose that produced the result.
Returned(op, error, path, landmarks, posture, baseline) ==
  [ op |-> op, error |-> error, path |-> path, landmarks |-> landmarks,
    posture |-> posture, baseline |-> baseline ]

Init ==
  /\ pose = "null"
  /\ isInitialized = FALSE
  /\ lastResult = << >>
  /\ isProcessing = FALSE
  /\ calibrationBaseline = << >>
  /\ smoothingBuffer = EmptySmoothingBuffer
  /\ loading = 0
  /\ inFlight = 0
  /\ now = 0
  /\ out = [ op |-> "new", error |-> "none", path |-> "none",
             landmarks |-> << >>, posture |-> << >>, baseline |-> << >> ]
  /\ smoothingTrace = [ buffer |-> << >>, values |-> << >>,
                        averages |-> << >> ]
  /\ pushedSinceReset = << >>
  /\ state = "idle"
  /\ hookError = "null"
  /\ hookResult = << >>
  /\ isCalibrated = FALSE
  /\ calibrationData = << >>
  /\ detectorRef = FALSE
  /\ detectionIntervalRef = "null"
  /\ videoElementRef = FALSE
  /\ isMountedRef = TRUE
  /\ lastUpdateRef = << >>
  /\ lastUpdateTimeRef = 0
  /\ isCalibratedRef = FALSE
  /\ timers = 0
  /\ awaiting = "none"
  /\ microtask = "none"
  /\ cameraState = "idle"
  /\ cameraError = "null"
  /\ stream = << >>
  /\ cameraIsMountedRef = TRUE
  /\ isSupported = TRUE
  /\ cameraMounted = TRUE
  /\ pending = 0
  /\ abandoned = 0
  /\ obtained = 0
  /\ stoppedStreams = {}
  /\ disabledStreams = {}
  /\ platform = "none"
  /\ mediaAccess = "not-determined"
  /\ calls = [ c \in {0} \cup Invocations |-> "none" ]
  /\ ipcResult = [ i \in Invocations |-> << >> ]

\* ------------------------------------------------------------------------
\* initialize
\* ------------------------------------------------------------------------
\* initialize() up to the await of the dynamic import; an initialized
\* detector returns at once.
InitializeCall ==
  /\ IF isInitialized
       THEN /\ out' = Returned("initialize", "none", "none",
                               << >>, << >>, << >>)
            /\ UNCHANGED loading
       ELSE /\ loading < MaxLoading
            /\ loading' = loading + 1
            /\ UNCHANGED out
  /\ UNCHANGED << detector, inFlight, now >>

\* the import resolved: the instance is created and configured
InitializeDone ==
  /\ loading > 0
  /\ loading' = loading - 1
  /\ pose' = "open"
  /\ isInitialized' = TRUE
  /\ out' = Returned("initialize", "none", "none", << >>, << >>, << >>)
  /\ UNCHANGED << lastResult, isProcessing, calibrationBaseline,
                  smoothingBuffer, inFlight, now >>

\* the import (created = FALSE) or the configuration of the new instance
\* (created = TRUE) threw
InitializeFails(created) ==
  /\ loading > 0
  /\ loading' = loading - 1
  /\ pose' = IF created THEN "open" ELSE pose
  /\ isInitialized' = FALSE
  /\ out' = Returned("initialize", "InitializationFailure", "none",
                     << >>, << >>, << >>)
  /\ UNCHANGED << lastResult, isProcessing, calibrationBaseline,
                  smoothingBuffer, inFlight, now >>

\* ------------------------------------------------------------------------
\* detectPose
\* ------------------------------------------------------------------------
\* this.lastResult?.poseLandmarks || null
lastLandmarks(result) ==
  IF result = << >> THEN << >> ELSE result[1].poseLandmarks

\* the analysis emptying the buffers when nobody is seen
AnalyzeAndReturnEmptiesOnAbsent(path, landmarks) ==
  LET analysis == IF landmarks # << >>
                    THEN analyzePosture(landmarks[1], smoothingBuffer,
                                        calibrationBaseline)
                    ELSE [ posture |-> createNoPersonAnalysis,
                           smoothingBuffer |-> smoothingBuffer ]
  IN  /\ smoothingBuffer' =
           IF analysis.posture.type = "no-person"
             THEN EmptySmoothingBuffer ELSE analysis.smoothingBuffer
      /\ out' = Returned("detectPose", "none", path, landmarks,
                         << analysis.posture >>, << >>)

\* landmarks ? this.analyzePosture(landmarks) : this.createNoPersonAnalysis()
\* followed by the return of the detection result
AnalyzeAndReturn(path, landmarks) ==
  LET analysis == IF landmarks # << >>
                    THEN analyzePosture(landmarks[1], smoothingBuffer,
                                        calibrationBaseline)
                    ELSE [ posture |-> createNoPersonAnalysis,
                           smoothingBuffer |-> smoothingBuffer ]
  IN  /\ smoothingBuffer' = analysis.smoothingBuffer
      /\ out' = Returned("detectPose", "none", path, landmarks,
                         << analysis.posture >>, << >>)

\* detectPose raising the in-flight flag before it tests the detector
DetectPoseCallFlagFirst(video) ==
  IF ~isInitialized \/ pose = "null" THEN
    /\ isProcessing' = TRUE
    /\ out' = Returned("detectPose", "NotInitialized", "throw",
                       << >>, << >>, << >>)
    /\ UNCHANGED << pose, isInitialized, lastResult, calibrationBaseline,
                    smoothingBuffer, loading, inFlight, now >>
  ELSE IF isProcessing THEN
    /\ AnalyzeAndReturn("guard", lastLandmarks(lastResult))
    /\ UNCHANGED << pose, isInitialized, lastResult, isProcessing,
                    calibrationBaseline, loading, inFlight, now >>
  ELSE IF video # "playing" THEN
    /\ out' = Returned("detectPose", "none", "video", << >>,
                       << createNoPersonAnalysis >>, << >>)
    /\ UNCHANGED << detector, loading, inFlight, now >>
  ELSE
    /\ inFlight < MaxInFlight
    /\ isProcessing' = TRUE
    /\ inFlight' = inFlight + 1
    /\ UNCHANGED << pose, isInitialized, lastResult, calibrationBaseline,
                    smoothingBuffer, loading, now, out >>

\* detectPose(videoElement) up to its first return or to the await of
\* pose.send; video is "playing", "noDimensions" or "paused".
DetectPoseCall(video) ==
  IF ~isInitialized \/ pose = "null" THEN
    /\ out' = Returned("detectPose", "NotInitialized", "throw",
                       << >>, << >>, << >>)
    /\ UNCHANGED << detector, loading, inFlight, now >>
  ELSE IF isProcessing THEN
    /\ AnalyzeAndReturn("guard", lastLandmarks(lastResult))
    /\ UNCHANGED << pose, isInitialized, lastResult, isProcessing,
                    calibrationBaseline, loading, inFlight, now >>
  ELSE IF video # "playing" THEN
    /\ out' = Returned("detectPose", "none", "video", << >>,
                       << createNoPersonAnalysis >>, << >>)
    /\ UNCHANGED << detector, loading, inFlight, now >>
  ELSE
    /\ inFlight < MaxInFlight
    /\ isProcessing' = TRUE
    /\ inFlight' = inFlight + 1
    /\ UNCHANGED << pose, isInitialized, lastResult, calibrationBaseline,
                    smoothingBuffer, loading, now, out >>

\* pose.send resolved: the onResults callback stored results (landmarks is
\* << >> when no person was found), and the awaiting detectPose call
\* analyses them, returns and clears the flag in its finally block.
SendResolves(landmarks) ==
  /\ inFlight > 0
  /\ inFlight' = inFlight - 1
  /\ lastResult' = << [ poseLandmarks |-> landmarks ] >>
  /\ AnalyzeAndReturn("send", landmarks)
  /\ isProcessing' = FALSE
  /\ UNCHANGED << pose, isInitialized, calibrationBaseline, loading, now >>

\* the catch branch of detectPose without the finally block
SendRejectsKeepsFlag ==
  /\ inFlight > 0
  /\ inFlight' = inFlight - 1
  /\ out' = Returned("detectPose", "none", "catch", << >>,
                     << createNoPersonAnalysis >>, << >>)
  /\ UNCHANGED << pose, isInitialized, lastResult, isProcessing,
                  calibrationBaseline, smoothingBuffer, loading, now >>

\* pose.send rejected: the catch block returns no-person
SendRejects ==
  /\ inFlight > 0
  /\ inFlight' = inFlight - 1
  /\ isProcessing' = FALSE
  /\ out' = Returned("detectPose", "none", "catch", << >>,
                     << createNoPersonAnalysis >>, << >>)
  /\ UNCHANGED << pose, isInitialized, lastResult, calibrationBaseline,
                  smoothingBuffer, loading, now >>

\* ------------------------------------------------------------------------
\* calibrate, getCalibration, clearCalibration, dispose
\* ------------------------------------------------------------------------
\* calibrate without the reset of the smoothing buffers
CalibrateKeepsBuffers(landmarks) ==
  IF ~calibrateHasGoodVisibility(landmarks) THEN
    /\ out' = Returned("calibrate", "PersonNotVisible", "throw",
                       << landmarks >>, << >>, << >>)
    /\ UNCHANGED << detector, loading, inFlight, now >>
  ELSE
    /\ calibrationBaseline' = << calibrationBaselineOf(landmarks, now) >>
    /\ out' = Returned("calibrate", "none", "none", << landmarks >>,
                       << >>, << >>)
    /\ UNCHANGED << pose, isInitialized, lastResult, isProcessing,
                    smoothingBuffer, loading, inFlight, now >>

\* calibrate emptying the smoothing buffers before it checks the frame
CalibrateResetsBeforeCheck(landmarks) ==
  IF ~calibrateHasGoodVisibility(landmarks) THEN
    /\ smoothingBuffer' = EmptySmoothingBuffer
    /\ out' = Returned("calibrate", "PersonNotVisible", "throw",
                       << landmarks >>, << >>, << >>)
    /\ UNCHANGED << pose, isInitialized, lastResult, isProcessing,
                    calibrationBaseline, loading, inFlight, now >>
  ELSE
    /\ calibrationBaseline' = << calibrationBaselineOf(landmarks, now) >>
    /\ smoothingBuffer' = EmptySmoothingBuffer
    /\ out' = Returned("calibrate", "none", "none", << landmarks >>,
                       << >>, << >>)
    /\ UNCHANGED << pose, isInitialized, lastResult, isProcessing,
                    loading, inFlight, now >>

Calibrate(landmarks) ==
  IF ~calibrateHasGoodVisibility(landmarks) THEN
    /\ out' = Returned("calibrate", "PersonNotVisible", "throw",
                       << landmarks >>, << >>, << >>)
    /\ UNCHANGED << detector, loading, inFlight, now >>
  ELSE
    /\ calibrationBaseline' = << calibrationBaselineOf(landmarks, now) >>
    /\ smoothingBuffer' = EmptySmoothingBuffer
    /\ out' = Returned("calibrate", "none", "none", << landmarks >>,
                       << >>, << >>)
    /\ UNCHANGED << pose, isInitialized, lastResult, isProcessing,
                    loading, inFlight, now >>

GetCalibration ==
  /\ out' = Returned("getCalibration", "none", "none", << >>, << >>,
                     calibrationBaseline)
  /\ UNCHANGED << detector, loading, inFlight, now >>

\* clearCalibration without the reset of the smoothing buffers
ClearCalibrationKeepsBuffers ==
  /\ calibrationBaseline' = << >>
  /\ out' = Returned("clearCalibration", "none", "none", << >>, << >>,
                     << >>)
  /\ UNCHANGED << pose, isInitialized, lastResult, isProcessing,
                  smoothingBuffer, loading, inFlight, now >>

\* clearCalibration() emptying every buffer but shoulderHeights
ClearCalibrationKeepsHeights ==
  /\ calibrationBaseline' = << >>
  /\ smoothingBuffer' =
       [EmptySmoothingBuffer EXCEPT
          !.shoulderHeights = smoothingBuffer.shoulderHeights]
  /\ out' = Returned("clearCalibration", "none", "none", << >>, << >>,
                     << >>)
  /\ UNCHANGED << pose, isInitialized, lastResult, isProcessing,
                  loading, inFlight, now >>

ClearCalibration ==
  /\ calibrationBaseline' = << >>
  /\ smoothingBuffer' = EmptySmoothingBuffer
  /\ out' = Returned("clearCalibration", "none", "none", << >>, << >>,
                     << >>)
  /\ UNCHANGED << pose, isInitialized, lastResult, isProcessing,
                  loading, inFlight, now >>

\* dispose that also drops the calibration
DisposeResetsCalibration ==
  /\ pose' = "null"
  /\ isInitialized' = FALSE
  /\ lastResult' = << >>
  /\ isProcessing' = FALSE
  /\ calibrationBaseline' = << >>
  /\ out' = Returned("dispose", "none", "none", << >>, << >>, << >>)
  /\ UNCHANGED << smoothingBuffer, loading, inFlight, now >>

Dispose ==
  /\ pose' = "null"
  /\ isInitialized' = FALSE
  /\ lastResult' = << >>
  /\ isProcessing' = FALSE
  /\ out' = Returned("dispose", "none", "none", << >>, << >>, << >>)
  /\ UNCHANGED << calibrationBaseline, smoothingBuffer, loading, inFlight,
                  now >>

\* time passes
Tick ==
  /\ now < MaxClock
  /\ now' = now + 1
  /\ UNCHANGED << detector, loading, inFlight, out >>

\* ------------------------------------------------------------------------
\* Specifications
\* ------------------------------------------------------------------------
\* The detector under any interleaving of its operations.  Time stands
\* still: the detector never reads the timestamps it stores.
\* The operations called on the detector directly, by callers that keep
\* no state of their own.
DirectInitializeCall ==
  InitializeCall /\ UNCHANGED << camera, observed, hook >>
DirectInitializeDone ==
  InitializeDone /\ UNCHANGED << camera, observed, hook >>
DirectInitializeFails(created) ==
  InitializeFails(created) /\ UNCHANGED << camera, observed, hook >>
DirectDetectPoseCall(video) ==
  DetectPoseCall(video) /\ UNCHANGED << camera, observed, hook >>
DirectSendResolves(landmarks) ==
  SendResolves(landmarks) /\ UNCHANGED << camera, observed, hook >>
DirectSendRejects ==
  SendRejects /\ UNCHANGED << camera, observed, hook >>
DirectCalibrate(landmarks) ==
  Calibrate(landmarks) /\ UNCHANGED << camera, observed, hook >>
DirectGetCalibration ==
  GetCalibration /\ UNCHANGED << camera, observed, hook >>
DirectClearCalibration ==
  ClearCalibration /\ UNCHANGED << camera, observed, hook >>
DirectDispose ==
  Dispose /\ UNCHANGED << camera, observed, hook >>
DirectTick ==
  Tick /\ UNCHANGED << camera, observed, hook >>

Next ==
  \/ DirectInitializeCall
  \/ DirectInitializeDone
  \/ \E created \in BOOLEAN : DirectInitializeFails(created)
  \/ \E video \in {"playing", "noDimensions", "paused"} :
       DirectDetectPoseCall(video)
  \/ \E landmarks \in {<< >>} \cup {<< f >> : f \in InterleavedFrames} :
       DirectSendResolves(landmarks)
  \/ DirectSendRejects
  \/ \E landmarks \in LoopFrames : DirectCalibrate(landmarks)
  \/ DirectGetCalibration
  \/ DirectClearCalibration
  \/ DirectDispose

Spec == Init /\ [][Next]_vars

\* at most MaxHistory frames in the smoothing buffers before the next one
HistoryRoom == Len(smoothingBuffer.slouchAngles) < MaxHistory

\* Calibration runs: one caller at a time calibrates from any frame while
\* time passes; detection only fills the buffers.
NextCalibration ==
  \/ (~isInitialized /\ DirectInitializeCall)
  \/ DirectInitializeDone
  \/ (HistoryRoom /\ ~isProcessing /\ DirectDetectPoseCall("playing"))
  \/ \E landmarks \in {<< f >> : f \in LoopFrames} :
       DirectSendResolves(landmarks)
  \/ \E landmarks \in Frames : DirectCalibrate(landmarks)
  \/ DirectGetCalibration
  \/ DirectClearCalibration
  \/ DirectTick

SpecCalibration == Init /\ [][NextCalibration]_vars

\* Classification runs: one caller at a time submits up to MaxHistory
\* frames of any kind, calibrating from the landmarks of the last result.
NextClassify ==
  \/ (~isInitialized /\ DirectInitializeCall)
  \/ DirectInitializeDone
  \/ (HistoryRoom /\ ~isProcessing /\ DirectDetectPoseCall("playing"))
  \/ \E landmarks \in {<< >>} \cup {<< f >> : f \in ClassifyFrames} :
       DirectSendResolves(landmarks)
  \/ \E landmarks \in ClassifyFrames :
       /\ lastLandmarks(lastResult) = << landmarks >>
       /\ DirectCalibrate(landmarks)

SpecClassify == Init /\ [][NextClassify]_vars

\* Gate runs: the classification runs over the frames that fail the
\* visibility gate of analyzePosture, one landmark at a time.
NextGate ==
  \/ (~isInitialized /\ DirectInitializeCall)
  \/ DirectInitializeDone
  \/ (HistoryRoom /\ ~isProcessing /\ DirectDetectPoseCall("playing"))
  \/ \E landmarks \in {<< >>} \cup {<< f >> : f \in GateFrames} :
       DirectSendResolves(landmarks)
  \/ \E landmarks \in GateFrames :
       /\ lastLandmarks(lastResult) = << landmarks >>
       /\ DirectCalibrate(landmarks)

SpecGate == Init /\ [][NextGate]_vars

\* Confidence runs: the classification runs over the frames that bring
\* out every confidence the rules assign.
NextConfidence ==
  \/ (~isInitialized /\ DirectInitializeCall)
  \/ DirectInitializeDone
  \/ (HistoryRoom /\ ~isProcessing /\ DirectDetectPoseCall("playing"))
  \/ \E landmarks \in {<< >>} \cup {<< f >> : f \in ConfidenceFrames} :
       DirectSendResolves(landmarks)
  \/ \E landmarks \in ConfidenceFrames :
       /\ lastLandmarks(lastResult) = << landmarks >>
       /\ DirectCalibrate(landmarks)

SpecConfidence == Init /\ [][NextConfidence]_vars

\* ------------------------------------------------------------------------
\* usePosture (src/unnamed/part_004)
\* ------------------------------------------------------------------------
\* The clock advances by one detection interval, 1000 / DEFAULT_DETECTION_FPS
\* milliseconds, at a time.
MsPerTick == 1000 \div DEFAULT_DETECTION_FPS

\* Date.now(), in milliseconds.  The hook starts long after the epoch:
\* its first reading is already MAX_UPDATE_INTERVAL past lastUpdateTimeRef's
\* initial 0.
DateNow == MAX_UPDATE_INTERVAL + now * MsPerTick

\* hasSignificantChange asking for more than the threshold
hasSignificantChangeAbove(current, previous) ==
  IF previous = << >> THEN TRUE
  ELSE IF current.posture.type # previous[1].posture.type THEN TRUE
  ELSE
    LET currPosture == current.posture
        prevPosture == previous[1].posture
        slouchDiff == Abs(currPosture.slouchAngle - prevPosture.slouchAngle)
        headTiltDiff ==
          Abs(currPosture.headTiltAngle - prevPosture.headTiltAngle)
        shoulderDiff ==
          Abs(currPosture.shoulderAlignment - prevPosture.shoulderAlignment)
        headYawDiff == Abs(currPosture.headYaw - prevPosture.headYaw)
        headPitchDiff == Abs(currPosture.headPitch - prevPosture.headPitch)
        confidenceDiff == Abs(currPosture.confidence - prevPosture.confidence)
    IN  \/ slouchDiff > ANGLE_CHANGE_THRESHOLD * Deg
        \/ headTiltDiff > ANGLE_CHANGE_THRESHOLD * Deg
        \/ shoulderDiff > ANGLE_CHANGE_THRESHOLD * Deg
        \/ headYawDiff > ANGLE_CHANGE_THRESHOLD * Deg
        \/ headPitchDiff > ANGLE_CHANGE_THRESHOLD * Deg
        \/ confidenceDiff > Pct(CONFIDENCE_CHANGE_THRESHOLD)

hasSignificantChange(current, previous) ==
  IF previous = << >> THEN TRUE
  ELSE IF current.posture.type # previous[1].posture.type THEN TRUE
  ELSE
    LET currPosture == current.posture
        prevPosture == previous[1].posture
        slouchDiff == Abs(currPosture.slouchAngle - prevPosture.slouchAngle)
        headTiltDiff ==
          Abs(currPosture.headTiltAngle - prevPosture.headTiltAngle)
        shoulderDiff ==
          Abs(currPosture.shoulderAlignment - prevPosture.shoulderAlignment)
        headYawDiff == Abs(currPosture.headYaw - prevPosture.headYaw)
        headPitchDiff == Abs(currPosture.headPitch - prevPosture.headPitch)
        confidenceDiff == Abs(currPosture.confidence - prevPosture.confidence)
    IN  \/ slouchDiff >= ANGLE_CHANGE_THRESHOLD * Deg
        \/ headTiltDiff >= ANGLE_CHANGE_THRESHOLD * Deg
        \/ shoulderDiff >= ANGLE_CHANGE_THRESHOLD * Deg
        \/ headYawDiff >= ANGLE_CHANGE_THRESHOLD * Deg
        \/ headPitchDiff >= ANGLE_CHANGE_THRESHOLD * Deg
        \/ confidenceDiff >= Pct(CONFIDENCE_CHANGE_THRESHOLD)

\* the PoseDetectionResult a detectPose call returned
DetectionResult(returned) ==
  [ landmarks |-> returned.landmarks, posture |-> returned.posture[1] ]

\* runDetection forwarding on a significant change only
ForwardOnChangeOnly(detectionResult) ==
  IF /\ isMountedRef
     /\ isCalibratedRef
     /\ hasSignificantChange(detectionResult, lastUpdateRef)
    THEN /\ hookResult' = << detectionResult >>
         /\ lastUpdateRef' = << detectionResult >>
         /\ lastUpdateTimeRef' = DateNow
    ELSE UNCHANGED << hookResult, lastUpdateRef, lastUpdateTimeRef >>

\* runDetection forwarding whether calibrated or not
ForwardUncalibrated(detectionResult) ==
  LET timeSinceLastUpdate == DateNow - lastUpdateTimeRef
      shouldUpdate ==
        \/ hasSignificantChange(detectionResult, lastUpdateRef)
        \/ timeSinceLastUpdate >= MAX_UPDATE_INTERVAL
  IN  IF isMountedRef /\ shouldUpdate
        THEN /\ hookResult' = << detectionResult >>
             /\ lastUpdateRef' = << detectionResult >>
             /\ lastUpdateTimeRef' = DateNow
        ELSE UNCHANGED << hookResult, lastUpdateRef, lastUpdateTimeRef >>

\* runDetection after detectPose has returned detectionResult
Forward(detectionResult) ==
  LET timeSinceLastUpdate == DateNow - lastUpdateTimeRef
      shouldUpdate ==
        \/ hasSignificantChange(detectionResult, lastUpdateRef)
        \/ timeSinceLastUpdate >= MAX_UPDATE_INTERVAL
  IN  IF isMountedRef /\ isCalibratedRef /\ shouldUpdate
        THEN /\ hookResult' = << detectionResult >>
             /\ lastUpdateRef' = << detectionResult >>
             /\ lastUpdateTimeRef' = DateNow
        ELSE UNCHANGED << hookResult, lastUpdateRef, lastUpdateTimeRef >>

\* the detectPose call throws NotInitialized
detectPoseThrows == ~isInitialized \/ pose = "null"

\* the detectPose call reaches the await of pose.send
detectPoseAwaits(video) ==
  ~detectPoseThrows /\ ~isProcessing /\ video = "playing"

\* runDetection, called by caller ("loop" for the interval timer, "start"
\* for startDetection), up to its return or to the await inside detectPose.
\* hasVideo is videoElementRef.current as the call finds it and errorBefore
\* the error message as the caller left it.
runDetection(caller, video, hasVideo, errorBefore) ==
  IF ~detectorRef \/ ~hasVideo \/ ~isMountedRef THEN
    /\ hookError' = errorBefore
    /\ UNCHANGED << detector, loading, inFlight, now, out, hookResult,
                    lastUpdateRef, lastUpdateTimeRef, awaiting >>
  ELSE
    /\ DetectPoseCall(video)
    /\ IF detectPoseThrows THEN
         /\ hookError' = IF isMountedRef THEN out'.error ELSE errorBefore
         /\ UNCHANGED << hookResult, lastUpdateRef, lastUpdateTimeRef,
                         awaiting >>
       ELSE IF detectPoseAwaits(video) THEN
         /\ awaiting' = caller
         /\ hookError' = errorBefore
         /\ UNCHANGED << hookResult, lastUpdateRef, lastUpdateTimeRef >>
       ELSE
         /\ Forward(DetectionResult(out'))
         /\ hookError' = errorBefore
         /\ UNCHANGED awaiting

\* the initialize effect, up to the await of detector.initialize()
HookInitialize ==
  /\ microtask = "none"
  /\ state = "idle"
  /\ ~detectorRef
  /\ InitializeCall
  /\ state' = "loading"
  /\ hookError' = "null"
  /\ UNCHANGED << camera, observed, hookResult, isCalibrated, calibrationData,
                  detectorRef, detectionIntervalRef, videoElementRef,
                  isMountedRef, lastUpdateRef, lastUpdateTimeRef,
                  isCalibratedRef, timers, awaiting, microtask >>

\* detector.initialize() resolved; an unmounted hook disposes the detector
HookInitializeDone ==
  /\ microtask = "none"
  /\ InitializeDone
  /\ IF isMountedRef
       THEN /\ detectorRef' = TRUE
            /\ state' = "ready"
            /\ UNCHANGED microtask
       ELSE /\ microtask' = "dispose"
            /\ UNCHANGED << detectorRef, state >>
  /\ UNCHANGED << camera, observed, hookError, hookResult, isCalibrated,
                  calibrationData, detectionIntervalRef, videoElementRef,
                  isMountedRef, lastUpdateRef, lastUpdateTimeRef,
                  isCalibratedRef, timers, awaiting >>

\* await detector.dispose() of the unmounted hook
HookDisposes ==
  /\ microtask = "dispose"
  /\ Dispose
  /\ microtask' = "none"
  /\ UNCHANGED << camera, observed, state, hookError, hookResult, isCalibrated,
                  calibrationData, detectorRef, detectionIntervalRef,
                  videoElementRef, isMountedRef, lastUpdateRef,
                  lastUpdateTimeRef, isCalibratedRef, timers, awaiting >>

\* detector.initialize() rejected
HookInitializeFails(created) ==
  /\ microtask = "none"
  /\ InitializeFails(created)
  /\ IF isMountedRef
       THEN /\ hookError' = out'.error
            /\ state' = "error"
       ELSE UNCHANGED << hookError, state >>
  /\ UNCHANGED << camera, observed, hookResult, isCalibrated, calibrationData,
                  detectorRef, detectionIntervalRef, videoElementRef,
                  isMountedRef, lastUpdateRef, lastUpdateTimeRef,
                  isCalibratedRef, timers, awaiting, microtask >>

\* clearInterval(detectionIntervalRef.current): the timers left
timersAfterClear ==
  IF detectionIntervalRef = "live" THEN timers - 1 ELSE timers

\* the cleanup of the effects at unmount
Unmount ==
  /\ microtask = "none"
  /\ isMountedRef
  /\ isMountedRef' = FALSE
  /\ IF detectorRef
       THEN Dispose
       ELSE UNCHANGED << detector, loading, inFlight, now, out >>
  /\ timers' = timersAfterClear
  /\ detectionIntervalRef' =
       IF detectionIntervalRef = "null" THEN "null" ELSE "cleared"
  /\ UNCHANGED << camera, observed, state, hookError, hookResult, isCalibrated,
                  calibrationData, detectorRef, videoElementRef,
                  lastUpdateRef, lastUpdateTimeRef, isCalibratedRef,
                  awaiting, microtask >>

\* the callback of the interval timer: runDetection
intervalCallback(video) ==
  /\ runDetection("loop", video, videoElementRef, hookError)
  /\ UNCHANGED << camera, observed, state, isCalibrated, calibrationData,
                  detectorRef, detectionIntervalRef, videoElementRef,
                  isMountedRef, isCalibratedRef, timers >>

\* an interval timer fires, at any moment
TimerFires(video) ==
  /\ microtask = "none"
  /\ timers > 0
  /\ intervalCallback(video)
  /\ UNCHANGED microtask

\* startDetection(videoElement), up to its return or to the await inside
\* its first runDetection
StartDetection(video) ==
  /\ microtask = "none"
  /\ IF ~detectorRef \/ state # "ready" THEN
       /\ hookError' = "Detector not ready"
       /\ UNCHANGED << detector, loading, inFlight, now, out, state,
                       hookResult, detectionIntervalRef, videoElementRef,
                       lastUpdateRef, lastUpdateTimeRef, timers, awaiting >>
     ELSE
       /\ videoElementRef' = TRUE
       /\ state' = "detecting"
       /\ runDetection("start", video, TRUE, "null")
       /\ IF isMountedRef /\ detectPoseAwaits(video)
            THEN /\ timers' = timersAfterClear
                 /\ detectionIntervalRef' =
                      IF detectionIntervalRef = "null"
                        THEN "null" ELSE "cleared"
            ELSE /\ timersAfterClear < MaxTimers
                 /\ timers' = timersAfterClear + 1
                 /\ detectionIntervalRef' = "live"
  /\ UNCHANGED << camera, observed, isCalibrated, calibrationData, detectorRef,
                  isMountedRef, isCalibratedRef, microtask >>

\* stopDetection leaving the video element in place
StopDetectionKeepsVideo ==
  /\ microtask = "none"
  /\ timers' = timersAfterClear
  /\ detectionIntervalRef' = "null"
  /\ state' = IF state = "detecting" THEN "ready" ELSE state
  /\ hookResult' = << >>
  /\ UNCHANGED << camera, observed, detector, loading, inFlight, now, out,
                  hookError, isCalibrated, calibrationData, detectorRef,
                  videoElementRef, isMountedRef, lastUpdateRef,
                  lastUpdateTimeRef, isCalibratedRef, awaiting, microtask >>

\* stopDetection setting the state to ready whatever it was
StopDetectionAlwaysReady ==
  /\ microtask = "none"
  /\ timers' = timersAfterClear
  /\ detectionIntervalRef' = "null"
  /\ videoElementRef' = FALSE
  /\ state' = "ready"
  /\ hookResult' = << >>
  /\ UNCHANGED << camera, observed, detector, loading, inFlight, now, out,
                  hookError, isCalibrated, calibrationData, detectorRef,
                  isMountedRef, lastUpdateRef, lastUpdateTimeRef,
                  isCalibratedRef, awaiting, microtask >>

StopDetection ==
  /\ microtask = "none"
  /\ timers' = timersAfterClear
  /\ detectionIntervalRef' = "null"
  /\ videoElementRef' = FALSE
  /\ state' = IF state = "detecting" THEN "ready" ELSE state
  /\ hookResult' = << >>
  /\ UNCHANGED << camera, observed, detector, loading, inFlight, now, out,
                  hookError, isCalibrated, calibrationData, detectorRef,
                  isMountedRef, lastUpdateRef, lastUpdateTimeRef,
                  isCalibratedRef, awaiting, microtask >>

\* performCalibration after detectPose returned: no landmarks is an error,
\* landmarks go to detector.calibrate in the continuation
calibrationAfterDetect(landmarks) ==
  IF landmarks = << >>
    THEN /\ hookError' = "No pose detected"
         /\ UNCHANGED microtask
    ELSE /\ microtask' = "calibrate"
         /\ UNCHANGED hookError

\* the hook's calibrate(), up to the return of performCalibration or to the
\* await inside detectPose
HookCalibrate(video) ==
  /\ microtask = "none"
  /\ IF ~detectorRef THEN
       /\ hookError' = "Detector not initialized"
       /\ UNCHANGED << detector, loading, inFlight, now, out, awaiting,
                       microtask >>
     ELSE IF ~videoElementRef THEN
       /\ hookError' = "Camera not started"
       /\ UNCHANGED << detector, loading, inFlight, now, out, awaiting,
                       microtask >>
     ELSE
       /\ DetectPoseCall(video)
       /\ IF detectPoseThrows THEN
            /\ hookError' = out'.error
            /\ UNCHANGED << awaiting, microtask >>
          ELSE IF detectPoseAwaits(video) THEN
            /\ awaiting' = "calibrate"
            /\ UNCHANGED << hookError, microtask >>
          ELSE
            /\ calibrationAfterDetect(out'.landmarks)
            /\ UNCHANGED awaiting
  /\ UNCHANGED << camera, observed, state, hookResult, isCalibrated,
                  calibrationData, detectorRef, detectionIntervalRef,
                  videoElementRef, isMountedRef, lastUpdateRef,
                  lastUpdateTimeRef, isCalibratedRef, timers >>

\* performCalibration marking the hook calibrated before it calls
\* detector.calibrate
PerformCalibrationMarksFirst ==
  /\ microtask = "calibrate"
  /\ microtask' = "none"
  /\ Calibrate(out.landmarks[1])
  /\ calibrationData' = calibrationBaseline'
  /\ isCalibrated' = TRUE
  /\ isCalibratedRef' = TRUE
  /\ hookError' = IF out'.error # "none" THEN out'.error ELSE "null"
  /\ UNCHANGED << camera, observed, state, hookResult, detectorRef,
                  detectionIntervalRef, videoElementRef, isMountedRef,
                  lastUpdateRef, lastUpdateTimeRef, timers, awaiting >>

\* performCalibration from detector.calibrate(detectionResult.landmarks) on
PerformCalibrationContinues ==
  /\ microtask = "calibrate"
  /\ microtask' = "none"
  /\ Calibrate(out.landmarks[1])
  /\ IF out'.error # "none"
       THEN /\ hookError' = out'.error
            /\ UNCHANGED << calibrationData, isCalibrated, isCalibratedRef >>
       ELSE /\ calibrationData' = calibrationBaseline'
            /\ isCalibrated' = TRUE
            /\ isCalibratedRef' = TRUE
            /\ hookError' = "null"
  /\ UNCHANGED << camera, observed, state, hookResult, detectorRef,
                  detectionIntervalRef, videoElementRef, isMountedRef,
                  lastUpdateRef, lastUpdateTimeRef, timers, awaiting >>

\* the hook's clearCalibration() resetting its own flags only
HookClearCalibrationFlagsOnly ==
  /\ microtask = "none"
  /\ IF detectorRef
       THEN /\ isCalibrated' = FALSE
            /\ isCalibratedRef' = FALSE
            /\ calibrationData' = << >>
            /\ hookResult' = << >>
       ELSE UNCHANGED << isCalibrated, isCalibratedRef, calibrationData,
                         hookResult >>
  /\ UNCHANGED << camera, observed, detector, loading, inFlight, now, out,
                  state, hookError, detectorRef, detectionIntervalRef,
                  videoElementRef, isMountedRef, lastUpdateRef,
                  lastUpdateTimeRef, timers, awaiting, microtask >>

HookClearCalibration ==
  /\ microtask = "none"
  /\ IF detectorRef
       THEN /\ ClearCalibration
            /\ isCalibrated' = FALSE
            /\ isCalibratedRef' = FALSE
            /\ calibrationData' = << >>
            /\ hookResult' = << >>
       ELSE UNCHANGED << detector, loading, inFlight, now, out,
                         isCalibrated, isCalibratedRef, calibrationData,
                         hookResult >>
  /\ UNCHANGED << camera, observed, state, hookError, detectorRef,
                  detectionIntervalRef, videoElementRef, isMountedRef,
                  lastUpdateRef, lastUpdateTimeRef, timers, awaiting,
                  microtask >>

\* what the hook function that awaited detectPose does with its result
afterDetectPose ==
  /\ awaiting' = "none"
  /\ IF awaiting = "calibrate"
       THEN /\ calibrationAfterDetect(out'.landmarks)
            /\ UNCHANGED << hookResult, lastUpdateRef, lastUpdateTimeRef >>
       ELSE /\ Forward(DetectionResult(out'))
            /\ UNCHANGED << hookError, microtask >>
  /\ IF awaiting = "start"
       THEN /\ timers < MaxTimers
            /\ timers' = timers + 1
            /\ detectionIntervalRef' = "live"
       ELSE UNCHANGED << timers, detectionIntervalRef >>
  /\ UNCHANGED << camera, observed, state, isCalibrated, calibrationData,
                  detectorRef, videoElementRef, isMountedRef,
                  isCalibratedRef >>

\* pose.send resolved under a detectPose call of the hook
HookSendResolves(landmarks) ==
  /\ microtask = "none"
  /\ awaiting # "none"
  /\ SendResolves(landmarks)
  /\ afterDetectPose

\* pose.send rejected under a detectPose call of the hook
HookSendRejects ==
  /\ microtask = "none"
  /\ awaiting # "none"
  /\ SendRejects
  /\ afterDetectPose

\* the frames the camera delivers to the hook
HookFrames == {<< >>} \cup {<< f >> : f \in InterleavedFrames}

\* The hook under any interleaving of its operations with the timer, the
\* pose source and the unmount.  Time stands still.
NextHook ==
  \/ HookInitialize
  \/ HookInitializeDone
  \/ HookDisposes
  \/ \E created \in BOOLEAN : HookInitializeFails(created)
  \/ Unmount
  \/ \E video \in {"playing", "paused"} : TimerFires(video)
  \/ \E video \in {"playing", "paused"} : StartDetection(video)
  \/ StopDetection
  \/ \E video \in {"playing", "paused"} : HookCalibrate(video)
  \/ PerformCalibrationContinues
  \/ HookClearCalibration
  \/ \E landmarks \in HookFrames : HookSendResolves(landmarks)
  \/ HookSendRejects

SpecHook == Init /\ [][NextHook]_vars

\* ------------------------------------------------------------------------
\* The detection loop on schedule
\* ------------------------------------------------------------------------
\* One detection interval passes under the running loop once the frame of
\* the previous interval has been processed; the callback of the timer is
\* what runs next.
IntervalElapses ==
  /\ microtask = "none"
  /\ awaiting = "none"
  /\ state = "detecting"
  /\ timers > 0
  /\ now < MaxTime
  /\ now' = now + 1
  /\ microtask' = "timer"
  /\ UNCHANGED << camera, observed, detector, loading, inFlight, out, state,
                  hookError, hookResult, isCalibrated, calibrationData,
                  detectorRef, detectionIntervalRef, videoElementRef,
                  isMountedRef, lastUpdateRef, lastUpdateTimeRef,
                  isCalibratedRef, timers, awaiting >>

\* the interval timer fires when its interval has passed
TimerFiresOnTime(video) ==
  /\ microtask = "timer"
  /\ microtask' = "none"
  /\ intervalCallback(video)

\* The hook with its loop running on schedule: the clock starts with the
\* loop, the timer fires once per interval and each frame is processed
\* before the next interval ends.
NextLoop ==
  \/ HookInitialize
  \/ HookInitializeDone
  \/ (state = "ready" /\ StartDetection("playing"))
  \/ (awaiting = "none" /\ ~isCalibratedRef /\ HookCalibrate("playing"))
  \/ PerformCalibrationContinues
  \/ IntervalElapses
  \/ TimerFiresOnTime("playing")
  \/ \E landmarks \in ScheduledFrames : HookSendResolves(landmarks)

SpecLoop == Init /\ [][NextLoop]_vars

\* ------------------------------------------------------------------------
\* The change filter
\* ------------------------------------------------------------------------
\* a second passes
SecondPasses ==
  /\ microtask = "none"
  /\ now + DEFAULT_DETECTION_FPS <= MaxTime
  /\ now' = now + DEFAULT_DETECTION_FPS
  /\ UNCHANGED << camera, observed, detector, loading, inFlight, out, hook >>

\* the buffers hold at most MaxHistory values before the frame
FilterRoom == Len(smoothingBuffer.slouchAngles) <= MaxHistory

\* The hook processing one frame after the other, calibrated or not,
\* mounted or not, with the clock read now and a second later.
NextFilter ==
  \/ HookInitialize
  \/ HookInitializeDone
  \/ (state = "ready" /\ StartDetection("playing"))
  \/ (awaiting = "none" /\ ~isCalibratedRef /\ HookCalibrate("playing"))
  \/ PerformCalibrationContinues
  \/ (awaiting = "none" /\ FilterRoom /\ TimerFires("playing"))
  \/ \E landmarks \in FilterFrames : HookSendResolves(landmarks)
  \/ SecondPasses
  \/ Unmount

SpecFilter == Init /\ [][NextFilter]_vars

\* One smoothing buffer on its own: up to MaxPushes values, each a whole
\* multiple of ten degrees, are pushed to a buffer that starts empty.
PushedDegrees == {10, 20, 30, 40, 50, 60}

PushValue(newValue) ==
  LET pushed == addToSmoothingBuffer(smoothingTrace.buffer, newValue)
  IN  /\ Len(smoothingTrace.values) < MaxPushes
      /\ smoothingTrace' =
           [ buffer |-> pushed.buffer,
             values |-> Append(smoothingTrace.values, newValue),
             averages |-> Append(smoothingTrace.averages, pushed.average) ]
      /\ UNCHANGED << detector, loading, inFlight, now, out,
                      pushedSinceReset, hook, camera >>

NextSmoothing == \E degrees \in PushedDegrees : PushValue(degrees * Deg)

SpecSmoothing == Init /\ [][NextSmoothing]_vars

\* Buffer runs: callers detect, calibrate, clear and dispose in any order
\* while every push of analyzePosture is recorded, up to MaxPushes pushes
\* between two resets.
PushRoom == Len(pushedSinceReset) < MaxPushes

\* analyzePosture(landmarks) pushes the raw metrics of a frame that passes
\* its visibility gate, and nothing otherwise
Pushes(landmarks) ==
  pushedSinceReset' =
    IF landmarks # << >> /\ hasGoodVisibility(landmarks[1])
      THEN Append(pushedSinceReset, rawMetrics(landmarks[1]))
      ELSE pushedSinceReset

\* detectPose recorded: the call served by the re-entrancy guard analyses
\* the landmarks of the last result
RecordedDetectPoseCall ==
  /\ PushRoom
  /\ DetectPoseCall("playing")
  /\ IF isInitialized /\ pose # "null" /\ isProcessing
       THEN Pushes(lastLandmarks(lastResult))
       ELSE UNCHANGED pushedSinceReset
  /\ UNCHANGED << smoothingTrace, hook, camera >>

RecordedSendResolves(landmarks) ==
  /\ SendResolves(landmarks)
  /\ Pushes(landmarks)
  /\ UNCHANGED << smoothingTrace, hook, camera >>

\* calibrate recorded: a calibration that succeeds empties the buffers
RecordedCalibrate(landmarks) ==
  /\ Calibrate(landmarks)
  /\ pushedSinceReset' = IF calibrateHasGoodVisibility(landmarks)
                           THEN << >> ELSE pushedSinceReset
  /\ UNCHANGED << smoothingTrace, hook, camera >>

RecordedClearCalibration ==
  /\ ClearCalibration
  /\ pushedSinceReset' = << >>
  /\ UNCHANGED << smoothingTrace, hook, camera >>

\* frames offered to calibrate in the buffer runs: one that passes the
\* visibility check and one that fails it
CalibrationFrames ==
  { Upright, WithVisibility(Upright, "nose", NoVisibility) }

\* The detector with every push recorded.  dispose() is called between
\* frames here; the runs of Spec cover a dispose under a pending send.
NextBuffers ==
  \/ (~isInitialized /\ DirectInitializeCall)
  \/ DirectInitializeDone
  \/ RecordedDetectPoseCall
  \/ \E landmarks \in {<< >>} \cup {<< f >> : f \in LoopFrames} :
       RecordedSendResolves(landmarks)
  \/ DirectSendRejects
  \/ \E landmarks \in CalibrationFrames : RecordedCalibrate(landmarks)
  \/ RecordedClearCalibration
  \/ (inFlight = 0 /\ DirectDispose)

SpecBuffers == Init /\ [][NextBuffers]_vars

\* ------------------------------------------------------------------------
\* The useCamera hook (src/hooks/use-camera.ts)
\* ------------------------------------------------------------------------
\* startCamera calls awaiting their race, and getUserMedia requests still
\* open after their timeout, at any one time
MaxRequests == 2
\* MediaStreams getUserMedia resolves with in one run
MaxStreams == 3

\* everything outside the useCamera hook
outsideCamera ==
  << detector, loading, inFlight, now, out, observed, hook, bridge >>

\* the names of the errors getUserMedia rejects with, "Error" standing for
\* every other error
ErrorNames ==
  { "NotAllowedError", "PermissionDeniedError", "NotFoundError",
    "DevicesNotFoundError", "NotReadableError", "TrackStartError", "Error" }

\* the type of the CameraError made of an error of that name
handleCameraError(name) ==
  IF name \in {"NotAllowedError", "PermissionDeniedError"}
    THEN "permission-denied"
  ELSE IF name \in {"NotFoundError", "DevicesNotFoundError"}
    THEN "not-found"
  ELSE IF name \in {"NotReadableError", "TrackStartError"}
    THEN "not-readable"
  ELSE "unknown"

\* The cleanup of the effect that depends on [stream]: React runs it with
\* the stream of the render that installed it, when a render changes
\* stream and when the component unmounts.
StreamEffectCleanup(held) ==
  /\ cameraIsMountedRef' = FALSE
  /\ stoppedStreams' =
       stoppedStreams \cup (IF held # << >> THEN {held[1]} ELSE {})

\* the effect that runs once on mount, on a browser with getUserMedia or
\* without
SupportEffect(supported) ==
  /\ cameraMounted
  /\ cameraState = "idle"
  /\ obtained = 0
  /\ isSupported' = supported
  /\ UNCHANGED << cameraState, cameraError, stream, cameraIsMountedRef,
                  cameraMounted, pending, abandoned, obtained,
                  stoppedStreams, disabledStreams,
                  outsideCamera >>

\* startCamera() up to the await of Promise.race
StartCamera ==
  /\ cameraMounted
  /\ IF ~isSupported
       THEN /\ cameraError' = "unknown"
            /\ cameraState' = "error"
            /\ UNCHANGED pending
       ELSE /\ pending + abandoned < MaxRequests
            /\ cameraState' = "requesting"
            /\ cameraError' = "null"
            /\ pending' = pending + 1
  /\ UNCHANGED << stream, cameraIsMountedRef, isSupported, cameraMounted,
                  abandoned, obtained, stoppedStreams, disabledStreams,
                  outsideCamera >>

\* getUserMedia resolves before the timeout: startCamera continues after
\* the await, and the render that follows setStream runs the cleanup of
\* the effect on [stream]
GetUserMediaResolves ==
  /\ pending > 0
  /\ obtained < MaxStreams
  /\ pending' = pending - 1
  /\ obtained' = obtained + 1
  /\ IF cameraIsMountedRef
       THEN /\ stream' = << obtained + 1 >>
            /\ cameraState' = "active"
            /\ StreamEffectCleanup(stream)
       ELSE /\ stoppedStreams' = stoppedStreams \cup {obtained + 1}
            /\ UNCHANGED << stream, cameraState, cameraIsMountedRef >>
  /\ UNCHANGED << cameraError, isSupported, cameraMounted, abandoned,
                  disabledStreams, outsideCamera >>

\* the catch block of startCamera
StartCameraCatch(name) ==
  IF cameraIsMountedRef
    THEN /\ cameraError' = handleCameraError(name)
         /\ cameraState' = "error"
    ELSE UNCHANGED << cameraError, cameraState >>

\* getUserMedia rejects before the timeout
GetUserMediaRejects(name) ==
  /\ pending > 0
  /\ pending' = pending - 1
  /\ StartCameraCatch(name)
  /\ UNCHANGED << stream, cameraIsMountedRef, isSupported, cameraMounted,
                  abandoned, obtained, stoppedStreams, disabledStreams,
                  outsideCamera >>

\* the 10-second timer rejects first; the getUserMedia request stays open
TimeoutWins ==
  /\ pending > 0
  /\ pending' = pending - 1
  /\ abandoned' = abandoned + 1
  /\ StartCameraCatch("Error")
  /\ UNCHANGED << stream, cameraIsMountedRef, isSupported, cameraMounted,
                  obtained, stoppedStreams, disabledStreams,
                  outsideCamera >>

\* getUserMedia resolves after its race was lost: nothing awaits the stream
LateResolves ==
  /\ abandoned > 0
  /\ obtained < MaxStreams
  /\ abandoned' = abandoned - 1
  /\ obtained' = obtained + 1
  /\ UNCHANGED << cameraState, cameraError, stream, cameraIsMountedRef,
                  isSupported, cameraMounted, pending, stoppedStreams,
                  disabledStreams, outsideCamera >>

\* getUserMedia rejects after its race was lost
LateRejects ==
  /\ abandoned > 0
  /\ abandoned' = abandoned - 1
  /\ UNCHANGED << cameraState, cameraError, stream, cameraIsMountedRef,
                  isSupported, cameraMounted, pending, obtained,
                  stoppedStreams, disabledStreams,
                  outsideCamera >>

\* stopCamera(), and the cleanup of the effect on [stream] run by the
\* render that follows setStream(null)
StopCamera ==
  /\ cameraMounted
  /\ IF stream # << >>
       THEN /\ stream' = << >>
            /\ cameraState' = "idle"
            /\ cameraError' = "null"
            /\ StreamEffectCleanup(stream)
       ELSE UNCHANGED << stream, cameraState, cameraError,
                         cameraIsMountedRef, stoppedStreams >>
  /\ UNCHANGED << isSupported, cameraMounted, pending, abandoned, obtained,
                  disabledStreams, outsideCamera >>

\* pauseCamera() testing the stream only
PauseCameraAnyState ==
  /\ cameraMounted
  /\ IF stream # << >>
       THEN /\ disabledStreams' = disabledStreams \cup {stream[1]}
            /\ cameraState' = "paused"
       ELSE UNCHANGED << disabledStreams, cameraState >>
  /\ UNCHANGED << cameraError, stream, cameraIsMountedRef, isSupported,
                  cameraMounted, pending, abandoned, obtained,
                  stoppedStreams, outsideCamera >>

PauseCamera ==
  /\ cameraMounted
  /\ IF stream # << >> /\ cameraState = "active"
       THEN /\ disabledStreams' = disabledStreams \cup {stream[1]}
            /\ cameraState' = "paused"
       ELSE UNCHANGED << disabledStreams, cameraState >>
  /\ UNCHANGED << cameraError, stream, cameraIsMountedRef, isSupported,
                  cameraMounted, pending, abandoned, obtained,
                  stoppedStreams, outsideCamera >>

ResumeCamera ==
  /\ cameraMounted
  /\ IF stream # << >> /\ cameraState = "paused"
       THEN /\ disabledStreams' = disabledStreams \ {stream[1]}
            /\ cameraState' = "active"
       ELSE UNCHANGED << disabledStreams, cameraState >>
  /\ UNCHANGED << cameraError, stream, cameraIsMountedRef, isSupported,
                  cameraMounted, pending, abandoned, obtained,
                  stoppedStreams, outsideCamera >>

\* the component unmounts: the cleanup of the effect on [stream] runs
UnmountCamera ==
  /\ cameraMounted
  /\ cameraMounted' = FALSE
  /\ StreamEffectCleanup(stream)
  /\ UNCHANGED << cameraState, cameraError, stream, isSupported, pending,
                  abandoned, obtained, disabledStreams, outsideCamera >>

NextCamera ==
  \/ \E supported \in BOOLEAN : SupportEffect(supported)
  \/ StartCamera
  \/ GetUserMediaResolves
  \/ \E name \in ErrorNames : GetUserMediaRejects(name)
  \/ TimeoutWins
  \/ LateResolves
  \/ LateRejects
  \/ StopCamera
  \/ PauseCamera
  \/ ResumeCamera
  \/ UnmountCamera

SpecCamera == Init /\ [][NextCamera]_vars

\* ------------------------------------------------------------------------
\* The Electron permission bridge (src/electron/main.js, preload.js)
\* ------------------------------------------------------------------------
Platforms == {"darwin", "win32", "linux"}

\* the call of requestMediaPermissions made when the app is ready; the
\* calls made for invocations are numbered from 1
Startup == 0

\* everything outside the main process
outsideBridge ==
  << detector, loading, inFlight, now, out, observed, hook, cameraHook >>

\* requestMediaPermissions() returns, with no return statement on any
\* path: the promise of an invocation resolves to undefined
Returns(call) ==
  /\ calls' = [calls EXCEPT ![call] = "done"]
  /\ ipcResult' = IF call = Startup
                    THEN ipcResult
                    ELSE [ipcResult EXCEPT ![call] = << "undefined" >>]

\* requestMediaPermissions() up to its first await
requestMediaPermissions(call) ==
  IF platform' = "darwin"
    THEN calls' = [calls EXCEPT ![call] = "status"] /\ UNCHANGED ipcResult
    ELSE Returns(call)

\* app.whenReady(): the process asks for the permissions before it
\* creates the window
AppReady(p) ==
  /\ platform = "none"
  /\ platform' = p
  /\ requestMediaPermissions(Startup)
  /\ UNCHANGED << mediaAccess, outsideBridge >>

\* the renderer calls window.electronAPI.requestCameraPermission(): the
\* handler of 'request-camera-permission' awaits requestMediaPermissions()
RequestCameraPermission(i) ==
  /\ calls[Startup] = "done"
  /\ calls[i] = "none"
  /\ \A j \in Invocations : j < i => calls[j] # "none"
  /\ UNCHANGED platform
  /\ requestMediaPermissions(i)
  /\ UNCHANGED << mediaAccess, outsideBridge >>

\* getMediaAccessStatus('camera') resolves
StatusResolves(call) ==
  /\ calls[call] = "status"
  /\ IF mediaAccess # "granted"
       THEN calls' = [calls EXCEPT ![call] = "ask"] /\ UNCHANGED ipcResult
       ELSE Returns(call)
  /\ UNCHANGED << platform, mediaAccess, outsideBridge >>

\* askForMediaAccess('camera') resolves: the user answers the prompt of an
\* undetermined status, a determined status is answered without a prompt
AskResolves(call, granted) ==
  /\ calls[call] = "ask"
  /\ mediaAccess' =
       IF mediaAccess = "not-determined"
         THEN (IF granted THEN "granted" ELSE "denied")
         ELSE mediaAccess
  /\ Returns(call)
  /\ UNCHANGED << platform, outsideBridge >>

\* either await throws: the catch block logs the error
PermissionThrows(call) ==
  /\ calls[call] \in {"status", "ask"}
  /\ Returns(call)
  /\ UNCHANGED << platform, mediaAccess, outsideBridge >>

\* the user or an administrator changes the camera access of the app in
\* the system settings of macOS
SettingsChange(status) ==
  /\ platform = "darwin"
  /\ mediaAccess # status
  /\ mediaAccess' = status
  /\ UNCHANGED << platform, calls, ipcResult, outsideBridge >>

NextBridge ==
  \/ \E p \in Platforms : AppReady(p)
  \/ \E i \in Invocations : RequestCameraPermission(i)
  \/ \E call \in {Startup} \cup Invocations : StatusResolves(call)
  \/ \E call \in {Startup} \cup Invocations, granted \in BOOLEAN :
       AskResolves(call, granted)
  \/ \E call \in {Startup} \cup Invocations : PermissionThrows(call)
  \/ \E status \in {"granted", "denied", "restricted"} :
       SettingsChange(status)

SpecBridge == Init /\ [][NextBridge]_vars

\* ------------------------------------------------------------------------
\* Properties
\* ------------------------------------------------------------------------
AllLandmarks == GateLandmarks \cup {"leftEye", "rightEye"}

\* the last call returned a detection result that carries landmarks
DetectedLandmarks ==
  /\ out.op = "detectPose"
  /\ out.error = "none"
  /\ out.landmarks # << >>

\* some landmark among names has visibility below 0.6
SomeBelowThreshold(landmarks, names) ==
  \E name \in names : Visibility(landmarks[name]) < 60

\* every landmark among names has visibility above 0.6
AllAboveThreshold(landmarks, names) ==
  \A name \in names : Visibility(landmarks[name]) > 60

\* the smoothed metrics after the last analysis: the means of the buffers
Mean(buffer) == SumSeq(buffer) \div Len(buffer)

\* C1: a frame analysed with nose, a shoulder or an ear below visibility
\* 0.6 yields no-person with confidence 0.95, whatever the other landmarks,
\* the eyes, the baseline and the buffers are.
C1_VisibilityGate ==
  (DetectedLandmarks /\ SomeBelowThreshold(out.landmarks[1], GateLandmarks))
    => /\ out.posture[1].type = "no-person"
       /\ out.posture[1].confidence = (95 * One) \div 100

C1_Witness ==
  /\ DetectedLandmarks
  /\ SomeBelowThreshold(out.landmarks[1], {"leftEar", "rightEar"})
  /\ calibrationBaseline # << >>
  /\ smoothingBuffer.slouchAngles # << >>

\* The rule table of the calibrated branch, as the specification states it.
C2_Verdict(m, b) ==
  IF m.slouchAngle < 40 * Deg \/ Abs(m.slouchAngle - b.slouchAngle) > 60 * Deg
    THEN "slouching"
  ELSE IF Abs(m.shoulderHeight - b.shoulderHeight) * 100 > 5 * HeightUnit
    THEN "slouching"
  ELSE IF Abs(m.headYaw - b.headYaw) > 45 * Deg
    THEN "looking-away"
  ELSE IF \/ Abs(m.headPitch - b.headPitch) > 30 * Deg
          \/ Abs(m.headTiltAngle - b.headTiltAngle) > 30 * Deg
    THEN "looking-down"
  ELSE "good-posture"

\* the smoothed metrics of the frame analysed last
Smoothed ==
  [ slouchAngle |-> out.posture[1].slouchAngle,
    headTiltAngle |-> out.posture[1].headTiltAngle,
    shoulderHeight |-> Mean(smoothingBuffer.shoulderHeights),
    headYaw |-> out.posture[1].headYaw,
    headPitch |-> out.posture[1].headPitch ]

\* the last call analysed a frame that passed the visibility gate
Analysed ==
  /\ DetectedLandmarks
  /\ AllAboveThreshold(out.landmarks[1], GateLandmarks)

EyesVisible == AllAboveThreshold(out.landmarks[1], {"leftEye", "rightEye"})

\* C2: with eyes visible and a baseline present the verdict is that of the
\* first matching rule in the order slouch angle, shoulder height, yaw,
\* pitch or tilt, and good-posture with confidence 0.9 when none matches.
C2_CalibratedRules ==
  (Analysed /\ EyesVisible /\ calibrationBaseline # << >>)
    => /\ out.posture[1].type = C2_Verdict(Smoothed, calibrationBaseline[1])
       /\ out.posture[1].type = "good-posture"
            => out.posture[1].confidence = (90 * One) \div 100

\* an earlier rule wins over a later one that matches too: shoulder height
\* over yaw
C2_Witness ==
  /\ Analysed /\ EyesVisible /\ calibrationBaseline # << >>
  /\ Smoothed.slouchAngle >= 40 * Deg
  /\ Abs(Smoothed.slouchAngle - calibrationBaseline[1].slouchAngle)
       <= 60 * Deg
  /\ Abs(Smoothed.shoulderHeight - calibrationBaseline[1].shoulderHeight)
       * 100 > 5 * HeightUnit
  /\ Abs(Smoothed.headYaw - calibrationBaseline[1].headYaw) > 45 * Deg
  /\ out.posture[1].type = "slouching"

\* C3: a frame that passes the gate with the eyes not visible yields
\* looking-down when |pitch| > 15 or tilt > 15 and looking-away otherwise,
\* with confidence 0.9, whatever the baseline and the other metrics are.
C3_EyesInvisible ==
  (Analysed /\ ~EyesVisible)
    => /\ out.posture[1].type =
            IF \/ Abs(Smoothed.headPitch) > 15 * Deg
               \/ Smoothed.headTiltAngle > 15 * Deg
              THEN "looking-down" ELSE "looking-away"
       /\ out.posture[1].confidence = (90 * One) \div 100

\* eyes hidden while the other metrics match the baseline
C3_Witness ==
  /\ Analysed /\ ~EyesVisible
  /\ calibrationBaseline # << >>
  /\ Smoothed.slouchAngle = calibrationBaseline[1].slouchAngle
  /\ Smoothed.headYaw = calibrationBaseline[1].headYaw
  /\ Smoothed.headPitch = calibrationBaseline[1].headPitch
  /\ out.posture[1].type = "looking-away"

\* C4 as stated: with eyes visible and no baseline, slouching when the
\* slouch angle is below 40, else looking-away when |yaw| > 30, else
\* looking-down when pitch or tilt exceeds 20, else good-posture at 0.9.
C4_AsStated ==
  (Analysed /\ EyesVisible /\ calibrationBaseline = << >>)
    => /\ out.posture[1].type =
            IF Smoothed.slouchAngle < 40 * Deg THEN "slouching"
            ELSE IF Abs(Smoothed.headYaw) > 30 * Deg THEN "looking-away"
            ELSE IF \/ Smoothed.headPitch > 20 * Deg
                    \/ Smoothed.headTiltAngle > 20 * Deg
              THEN "looking-down"
            ELSE "good-posture"
       /\ out.posture[1].type = "good-posture"
            => out.posture[1].confidence = (90 * One) \div 100

\* C4 amended: the fallback consults the head tilt only; the head pitch
\* plays no part in it.
C4_FallbackRules ==
  (Analysed /\ EyesVisible /\ calibrationBaseline = << >>)
    => /\ out.posture[1].type =
            IF Smoothed.slouchAngle < 40 * Deg THEN "slouching"
            ELSE IF Abs(Smoothed.headYaw) > 30 * Deg THEN "looking-away"
            ELSE IF Smoothed.headTiltAngle > 20 * Deg THEN "looking-down"
            ELSE "good-posture"
       /\ out.posture[1].type = "good-posture"
            => out.posture[1].confidence = (90 * One) \div 100

\* yaw 50 with a tilt above 20 as well: looking-away
C4_Witness ==
  /\ Analysed /\ EyesVisible /\ calibrationBaseline = << >>
  /\ Smoothed.slouchAngle >= 40 * Deg
  /\ Smoothed.headYaw = 50 * Deg
  /\ Smoothed.headTiltAngle > 20 * Deg
  /\ out.posture[1].type = "looking-away"

\* the craniovertebral angle of the landmarks of the last result is 35
SlouchAngleIs35 ==
  calculateSlouchAngle(out.landmarks[1].leftShoulder,
                       out.landmarks[1].rightShoulder,
                       out.landmarks[1].leftEar,
                       out.landmarks[1].rightEar) = 35 * Deg

\* C5 as stated: with no calibration, a frame whose landmarks place the
\* craniovertebral angle at 35 yields slouching with confidence >= 0.6
\* (read here for frames of a clearly visible person only).
C5_AsStated ==
  (Analysed /\ EyesVisible /\ out.path = "send"
     /\ calibrationBaseline = << >> /\ SlouchAngleIs35)
    => /\ out.posture[1].type = "slouching"
       /\ out.posture[1].confidence >= (60 * One) \div 100

\* C5 amended: the frame passes the visibility gate with both eyes visible
\* and is the first one analysed since the buffers were last empty.
C5_SlouchEndToEnd ==
  (Analysed /\ EyesVisible /\ out.path = "send"
     /\ calibrationBaseline = << >>
     /\ Len(smoothingBuffer.slouchAngles) = 1
     /\ SlouchAngleIs35)
    => /\ out.posture[1].type = "slouching"
       /\ out.posture[1].confidence >= (60 * One) \div 100

C5_Witness ==
  /\ Analysed /\ EyesVisible /\ out.path = "send"
  /\ calibrationBaseline = << >>
  /\ Len(smoothingBuffer.slouchAngles) = 1
  /\ SlouchAngleIs35
  /\ out.posture[1].type = "slouching"

CalibrateFailed == out.op = "calibrate" /\ out.error = "PersonNotVisible"
CalibrateSucceeded == out.op = "calibrate" /\ out.error = "none"

\* C6: calibrate fails with PersonNotVisible whenever one of nose,
\* shoulders, ears and eyes has visibility below 0.6, and a failed calibrate
\* leaves the baseline as it was, which is what getCalibration returned
\* just before.
C6_CalibrateFails ==
  /\ [](( out.op = "calibrate"
          /\ SomeBelowThreshold(out.landmarks[1], AllLandmarks))
          => out.error = "PersonNotVisible")
  /\ [][ CalibrateFailed'
           => /\ calibrationBaseline' = calibrationBaseline
              /\ out.op = "getCalibration"
                   => calibrationBaseline' = out.baseline ]_vars

\* a calibrate that failed for an eye alone, a baseline being present
C6_Witness ==
  /\ CalibrateFailed
  /\ SomeBelowThreshold(out.landmarks[1], {"leftEye", "rightEye"})
  /\ AllAboveThreshold(out.landmarks[1], GateLandmarks)
  /\ calibrationBaseline # << >>

\* C7: a successful calibrate stores the six metrics of its frame (slouch,
\* eye-based tilt, shoulder alignment, shoulder height, yaw, pitch) as they
\* are, with the time of the call; nothing else enters the new baseline.
C7_CalibrateStores ==
  /\ [](CalibrateSucceeded
          => /\ calibrationBaseline # << >>
             /\ LET f == out.landmarks[1]
                    b == calibrationBaseline[1]
                IN  /\ b.slouchAngle =
                         calculateSlouchAngle(f.leftShoulder,
                           f.rightShoulder, f.leftEar, f.rightEar)
                    /\ b.headTiltAngle =
                         calculateSagittalHeadTilt(f.leftEye, f.rightEye,
                           f.leftEar, f.rightEar)
                    /\ b.shoulderAlignment =
                         calculateShoulderAlignment(f.leftShoulder,
                           f.rightShoulder)
                    /\ b.shoulderHeight =
                         calculateShoulderHeight(f.leftShoulder,
                           f.rightShoulder)
                    /\ b.headYaw = calculateHeadOrientation(f).yaw
                    /\ b.headPitch = calculateHeadOrientation(f).pitch
                    /\ b.timestamp <= now)
  /\ [][ (CalibrateSucceeded' /\ calibrationBaseline' # calibrationBaseline)
           => calibrationBaseline'[1].timestamp = now ]_vars

\* an implausible posture (ears below the shoulders) stored at time 1
C7_Witness ==
  /\ CalibrateSucceeded
  /\ calibrationBaseline # << >>
  /\ calibrationBaseline[1].slouchAngle < 0
  /\ calibrationBaseline[1].timestamp = 1

AllBuffersEmpty(buffers) ==
  /\ buffers.slouchAngles = << >>
  /\ buffers.headTiltAngles = << >>
  /\ buffers.shoulderAlignments = << >>
  /\ buffers.shoulderHeights = << >>
  /\ buffers.headYaws = << >>
  /\ buffers.headPitches = << >>

\* C8: after a successful calibrate the six smoothing buffers are empty,
\* and the frame analysed next has its raw metrics as smoothed metrics.
C8_CalibrateEmptiesBuffers ==
  /\ [](CalibrateSucceeded => AllBuffersEmpty(smoothingBuffer))
  /\ [][ (CalibrateSucceeded /\ Analysed' /\ out' # out)
           => LET f == out'.landmarks[1]
                  p == out'.posture[1]
              IN  /\ p.slouchAngle =
                       calculateSlouchAngle(f.leftShoulder, f.rightShoulder,
                         f.leftEar, f.rightEar)
                  /\ p.headTiltAngle =
                       calculateSagittalHeadTilt(f.leftEye, f.rightEye,
                         f.leftEar, f.rightEar)
                  /\ p.shoulderAlignment =
                       calculateShoulderAlignment(f.leftShoulder,
                         f.rightShoulder)
                  /\ smoothingBuffer'.shoulderHeights =
                       << calculateShoulderHeight(f.leftShoulder,
                            f.rightShoulder) >>
                  /\ p.headYaw = calculateHeadOrientation(f).yaw
                  /\ p.headPitch = calculateHeadOrientation(f).pitch ]_vars

\* a calibrate that succeeded on a detector that had analysed frames
C8_Witness ==
  /\ CalibrateSucceeded
  /\ lastResult # << >>
  /\ AllBuffersEmpty(smoothingBuffer)

C10_ClearIdempotent ==
  /\ [](out.op = "clearCalibration"
          => /\ out.error = "none"
             /\ calibrationBaseline = << >>
             /\ AllBuffersEmpty(smoothingBuffer))
  /\ [][ (out'.op = "clearCalibration" /\ out' # out)
           => UNCHANGED << pose, isInitialized, lastResult, isProcessing,
                           loading, inFlight, now >> ]_vars
  /\ [][ (out.op = "clearCalibration" /\ out'.op = "clearCalibration")
           => UNCHANGED << calibrationBaseline, smoothingBuffer >> ]_vars

\* cleared while a frame is in flight, after frames had been analysed
C10_Witness ==
  /\ out.op = "clearCalibration"
  /\ isProcessing
  /\ lastResult # << >>

\* the last Min(n, 5) of the first n values of a sequence
LastWindow(values, n) ==
  SubSeq(values, n - Min(n, SMOOTHING_WINDOW_SIZE) + 1, n)

\* C11: the n-th push to a buffer that started empty returns the arithmetic
\* mean of the last min(n, 5) values pushed; pushing 10, 20, 30, 40, 50, 60
\* returns 10, 15, 20, 25, 30, 40, the last being the mean of 20..60.
C11_RunningMean ==
  /\ Len(smoothingTrace.averages) = Len(smoothingTrace.values)
  /\ \A n \in 1..Len(smoothingTrace.values) :
       smoothingTrace.averages[n] * Min(n, SMOOTHING_WINDOW_SIZE)
         = SumSeq(LastWindow(smoothingTrace.values, n))
  /\ smoothingTrace.values
       = << 10 * Deg, 20 * Deg, 30 * Deg, 40 * Deg, 50 * Deg, 60 * Deg >>
       => /\ smoothingTrace.averages
              = << 10 * Deg, 15 * Deg, 20 * Deg, 25 * Deg, 30 * Deg,
                   40 * Deg >>
          /\ smoothingTrace.buffer
              = << 20 * Deg, 30 * Deg, 40 * Deg, 50 * Deg, 60 * Deg >>

\* 10, 20, 30, 40, 50, 60 have been pushed in this order
C11_Witness ==
  smoothingTrace.values
    = << 10 * Deg, 20 * Deg, 30 * Deg, 40 * Deg, 50 * Deg, 60 * Deg >>

\* the values of one raw metric among the records pushed since the reset
PushedMetric(metric) ==
  [ n \in 1..Len(pushedSinceReset) |-> pushedSinceReset[n][metric] ]

\* buffer holds the last min(n, 5) of the n values pushed, oldest first
HoldsLatest(buffer, metric) ==
  /\ Len(buffer) <= SMOOTHING_WINDOW_SIZE
  /\ buffer = LastWindow(PushedMetric(metric), Len(pushedSinceReset))

\* C12: between operations each of the six buffers holds at most 5 values,
\* and they are the most recent values pushed since the buffers were last
\* emptied, in arrival order.
C12_BuffersHoldLatest ==
  /\ HoldsLatest(smoothingBuffer.slouchAngles, "rawSlouchAngle")
  /\ HoldsLatest(smoothingBuffer.headTiltAngles, "rawHeadTiltAngle")
  /\ HoldsLatest(smoothingBuffer.shoulderAlignments, "rawShoulderAlignment")
  /\ HoldsLatest(smoothingBuffer.shoulderHeights, "rawShoulderHeight")
  /\ HoldsLatest(smoothingBuffer.headYaws, "rawHeadYaw")
  /\ HoldsLatest(smoothingBuffer.headPitches, "rawHeadPitch")

\* a sixth value has evicted the first, which differed from the second
C12_Witness ==
  /\ Len(pushedSinceReset) = SMOOTHING_WINDOW_SIZE + 1
  /\ pushedSinceReset[1].rawSlouchAngle # pushedSinceReset[2].rawSlouchAngle
  /\ Len(smoothingBuffer.slouchAngles) = SMOOTHING_WINDOW_SIZE

\* what the video element of a detectPose call can be
Videos == {"playing", "noDimensions", "paused"}

\* C14: a detectPose call that arrives while another call of the detector
\* awaits the pose source issues no second send, returns a result derived
\* from the landmarks of the last completed source result (no-person when
\* there is none) and leaves the in-flight flag alone.
C14_AsStated ==
  [][ (/\ inFlight > 0
       /\ isInitialized
       /\ pose # "null"
       /\ \E video \in Videos : DetectPoseCall(video))
        => /\ inFlight' = inFlight
           /\ isProcessing' = isProcessing
           /\ out'.op = "detectPose"
           /\ out'.error = "none"
           /\ out'.landmarks = lastLandmarks(lastResult)
           /\ lastResult = << >>
                => out'.posture = << createNoPersonAnalysis >> ]_vars

\* C15: a detectPose call served by the re-entrancy guard returns what the
\* last completed result gives and leaves the six smoothing buffers exactly
\* as they were.
C15_AsStated ==
  [][ (/\ isInitialized
       /\ pose # "null"
       /\ isProcessing
       /\ \E video \in Videos : DetectPoseCall(video))
        => /\ out'.landmarks = lastLandmarks(lastResult)
           /\ smoothingBuffer' = smoothingBuffer ]_vars

BufferNames ==
  { "slouchAngles", "headTiltAngles", "shoulderAlignments",
    "shoulderHeights", "headYaws", "headPitches" }

\* the step is a calibrate that succeeds or a clearCalibration
CalibrationEvent ==
  \/ ClearCalibration
  \/ \E landmarks \in Frames :
       calibrateHasGoodVisibility(landmarks) /\ Calibrate(landmarks)

C16_AsStated ==
  [][ (awaiting = "loop" /\ CalibrationEvent)
        => /\ calibrationBaseline' = calibrationBaseline
           /\ smoothingBuffer' = smoothingBuffer ]_vars

\* C19: the state starts idle and only ever goes from idle to loading by
\* the initialize effect, from loading to ready or to error when
\* detector.initialize() settles, from ready to detecting by startDetection
\* and from detecting to ready by stopDetection; nothing leaves error.
C19_StateTransitions ==
  /\ state = "idle"
  /\ [][ state' # state
           => \/ state = "idle" /\ state' = "loading" /\ HookInitialize
              \/ state = "loading" /\ state' = "ready" /\ HookInitializeDone
              \/ /\ state = "loading"
                 /\ state' = "error"
                 /\ \E created \in BOOLEAN : HookInitializeFails(created)
              \/ /\ state = "ready"
                 /\ state' = "detecting"
                 /\ \E video \in Videos : StartDetection(video)
              \/ state = "detecting" /\ state' = "ready" /\ StopDetection
     ]_vars

\* startDetection and stopDetection were called in the error state, which
\* they did not leave
C19_Witness ==
  /\ state = "error"
  /\ hookError = "Detector not ready"
  /\ ~videoElementRef

\* the state, error, result and loop of the hook
observable ==
  << state, hookError, hookResult, detectionIntervalRef, timers >>

\* C20: startDetection called while the hook is detecting, and
\* stopDetection called while it is stopped, leave the state, error, result
\* and running loop of the hook as they were after the first call.
C20_AsStated ==
  [][ /\ (state = "detecting" /\ \E video \in Videos : StartDetection(video))
          => UNCHANGED observable
      /\ (/\ state # "detecting"
          /\ detectionIntervalRef = "null"
          /\ hookResult = << >>
          /\ StopDetection)
          => UNCHANGED observable ]_vars

\* the angles of a posture the change filter compares
FilteredAngles ==
  {"slouchAngle", "headTiltAngle", "shoulderAlignment", "headYaw",
   "headPitch"}

\* received differs from the last forwarded result as the claim asks
DiffersFromForwarded(received, forwarded) ==
  \/ forwarded = << >>
  \/ received.posture.type # forwarded[1].posture.type
  \/ \E angle \in FilteredAngles :
       Abs(received.posture[angle] - forwarded[1].posture[angle])
         >= 2 * Deg
  \/ 10 * Abs(received.posture.confidence
                - forwarded[1].posture.confidence) >= One

\* a step in which runDetection gets the result of its detectPose call
RunDetectionReceives ==
  \/ awaiting \in {"loop", "start"} /\ awaiting' = "none"
  \/ /\ detectorRef
     /\ isMountedRef
     /\ ~detectPoseThrows
     /\ \E video \in Videos :
          /\ ~detectPoseAwaits(video)
          /\ \/ videoElementRef /\ TimerFires(video)
             \/ state = "ready" /\ StartDetection(video)

\* the received result is forwarded
Forwarded(received) ==
  /\ hookResult' = << received >>
  /\ lastUpdateRef' = << received >>
  /\ lastUpdateTimeRef' = DateNow

NotForwarded == UNCHANGED << hookResult, lastUpdateRef, lastUpdateTimeRef >>

\* C17 as stated: a result runDetection receives is forwarded exactly when
\* nothing was forwarded before, or the type differs from the last
\* forwarded result, or one of the five angles differs by 2 degrees or
\* more, or the confidence by 0.1 or more, or 1000 ms have passed since the
\* last forward.
C17_AsStated ==
  [][ RunDetectionReceives
        => IF \/ DiffersFromForwarded(DetectionResult(out'), lastUpdateRef)
              \/ DateNow - lastUpdateTimeRef >= 1000
             THEN Forwarded(DetectionResult(out'))
             ELSE NotForwarded ]_vars

\* C17: while the hook is mounted and calibrated, a result runDetection
\* receives is forwarded exactly when nothing was forwarded before, or the
\* type differs from the last forwarded result, or one of the five angles
\* differs by 2 degrees or more, or the confidence by 0.1 or more, or
\* 1000 ms have passed since the last forward; while it is not calibrated
\* or not mounted, nothing is forwarded.
C17_ChangeFilter ==
  [][ RunDetectionReceives
        => IF /\ isMountedRef
              /\ isCalibratedRef
              /\ \/ DiffersFromForwarded(DetectionResult(out'),
                                         lastUpdateRef)
                 \/ DateNow - lastUpdateTimeRef >= 1000
             THEN Forwarded(DetectionResult(out'))
             ELSE NotForwarded ]_vars

\* runDetection received a result of the same type whose slouch angle is
\* less than 2 degrees off the last forwarded one, and kept it back
C17_Witness ==
  /\ isMountedRef
  /\ isCalibratedRef
  /\ awaiting = "none"
  /\ out.op = "detectPose"
  /\ lastUpdateRef # << >>
  /\ out.posture[1].type = lastUpdateRef[1].posture.type
  /\ out.posture[1].slouchAngle # lastUpdateRef[1].posture.slouchAngle
  /\ hookResult = lastUpdateRef

\* Date.now() at the tick the clock showed
DateAt(tick) == MAX_UPDATE_INTERVAL + tick * MsPerTick

\* the loop is detecting: the hook is mounted, its state is detecting and
\* the interval timer is installed
LoopDetecting == isMountedRef /\ state = "detecting" /\ timers > 0

C21_NoSubmissionWhileStopped ==
  [][ (state # "detecting" /\ inFlight' > inFlight)
        => \E video \in Videos : StartDetection(video) ]_vars

\* stopDetection was called while the first frame of startDetection was in
\* flight; the frame has completed and left an interval timer running
C21_Witness ==
  /\ isMountedRef
  /\ state = "ready"
  /\ ~videoElementRef
  /\ detectionIntervalRef = "live"
  /\ timers > 0
  /\ inFlight = 0
  /\ awaiting = "none"

\* C22: when pose.send fails under a frame of the detecting loop, the
\* detectPose call returns a no-person result without an error, the
\* in-flight flag is cleared, the hook stays detecting with its error as
\* it was and an interval timer installed, and the detector is ready to
\* send the next frame.
C22_SourceFailureRecovered ==
  [][ (/\ isMountedRef
       /\ state = "detecting"
       /\ awaiting \in {"loop", "start"}
       /\ HookSendRejects)
        => /\ out'.op = "detectPose"
           /\ out'.error = "none"
           /\ out'.landmarks = << >>
           /\ out'.posture = << createNoPersonAnalysis >>
           /\ ~isProcessing'
           /\ inFlight' = 0
           /\ state' = "detecting"
           /\ hookError' = hookError
           /\ timers' > 0
           /\ videoElementRef' /\ detectorRef'
           /\ isInitialized' /\ pose' # "null" ]_vars

\* the frame after a failed one is in flight: the last call that returned
\* went through the catch branch and the timer has submitted another
C22_Witness ==
  /\ isMountedRef
  /\ state = "detecting"
  /\ out.op = "detectPose"
  /\ out.path = "catch"
  /\ awaiting = "loop"
  /\ inFlight = 1
  /\ isProcessing
  /\ hookError = "null"

\* C23: detectPose on a detector that is not initialized (never, not yet,
\* or disposed) fails with NotInitialized, issues no send and leaves the
\* baseline, the buffers, the flags, the pose source and the last result
\* as they were; on an initialized detector, whatever failed before, it
\* issues a send or returns a result without an error.
C23_NotInitializedIsLocal ==
  [][ \A video \in Videos :
        DetectPoseCall(video)
          => IF ~isInitialized \/ pose = "null"
               THEN /\ out'.op = "detectPose"
                    /\ out'.error = "NotInitialized"
                    /\ inFlight' = inFlight
                    /\ UNCHANGED << calibrationBaseline, smoothingBuffer,
                                    isInitialized, isProcessing, pose,
                                    lastResult >>
               ELSE \/ inFlight' = inFlight + 1
                    \/ out'.op = "detectPose" /\ out'.error = "none" ]_vars

\* detectPose has just failed on a disposed detector that holds a baseline
\* and smoothed values, while initialize() is loading again
C23_Witness ==
  /\ out.op = "detectPose"
  /\ out.error = "NotInitialized"
  /\ pose = "null"
  /\ loading > 0
  /\ calibrationBaseline # << >>
  /\ smoothingBuffer.slouchAngles # << >>

\* the posture is no-person with confidence 0.95 and every angle 0
IsNoPerson(posture) ==
  /\ posture.type = "no-person"
  /\ 100 * posture.confidence = 95 * One
  /\ \A angle \in FilteredAngles : posture[angle] = 0

\* C24: when pose.send resolves with no landmarks, the detectPose call
\* returns landmarks null and a posture of type no-person, confidence 0.95
\* and every angle 0, whatever the baseline and the buffers are.
C24_AbsentFrameIsNoPerson ==
  [][ (inFlight > 0 /\ SendResolves(<< >>))
        => /\ out'.op = "detectPose"
           /\ out'.error = "none"
           /\ out'.landmarks = << >>
           /\ IsNoPerson(out'.posture[1]) ]_vars

\* an absent frame came back to a calibrated detector with values in its
\* buffers
C24_Witness ==
  /\ out.op = "detectPose"
  /\ out.path = "send"
  /\ out.landmarks = << >>
  /\ IsNoPerson(out.posture[1])
  /\ calibrationBaseline # << >>
  /\ smoothingBuffer.slouchAngles # << >>

\* the verdicts that carry a computed confidence
IssueTypes == {"slouching", "looking-away", "looking-down"}

\* C25: the confidence of every result detectPose returns is 0.95 for
\* no-person, 0.9 for good-posture and for every verdict reached with the
\* eyes not visible, and between 0.6 and 0.95 for slouching, looking-away
\* and looking-down; it is always within [0, 1].
C25_ConfidenceRange ==
  (out.op = "detectPose" /\ out.error = "none")
    => LET posture == out.posture[1]
       IN  /\ 0 <= posture.confidence /\ posture.confidence <= One
           /\ posture.type = "no-person"
                => 100 * posture.confidence = 95 * One
           /\ posture.type = "good-posture"
                => 10 * posture.confidence = 9 * One
           /\ posture.type \in IssueTypes
                => /\ 10 * posture.confidence >= 6 * One
                   /\ 100 * posture.confidence <= 95 * One
           /\ (/\ posture.type # "no-person"
               /\ ~analyzeEyeVisibility(out.landmarks[1]).eyesVisible)
                => 10 * posture.confidence = 9 * One

\* a verdict whose computed confidence lies strictly between 0.6 and 0.95
C25_Witness ==
  /\ out.op = "detectPose"
  /\ out.error = "none"
  /\ out.posture[1].type \in IssueTypes
  /\ analyzeEyeVisibility(out.landmarks[1]).eyesVisible
  /\ 10 * out.posture[1].confidence > 6 * One
  /\ 100 * out.posture[1].confidence < 95 * One

\* the fields of a PostureAnalysis as the claim lists them
SixMetricFields ==
  {"type", "confidence", "slouchAngle", "headTiltAngle",
   "shoulderAlignment", "shoulderHeight", "headYaw", "headPitch"}

\* C26 as stated: every posture detectPose returns has the type, the
\* confidence and the six metrics, shoulder height included.
C26_AsStated ==
  (out.op = "detectPose" /\ out.error = "none")
    => DOMAIN out.posture[1] = SixMetricFields

\* C26: every posture detectPose returns has the type, the confidence and
\* the five angles slouch angle, head tilt, shoulder alignment, head yaw
\* and head pitch, and no shoulder height; for a frame that was analysed
\* each angle is the mean of its smoothing buffer.
C26_ResultFields ==
  (out.op = "detectPose" /\ out.error = "none")
    => LET posture == out.posture[1]
       IN  /\ DOMAIN posture = SixMetricFields \ {"shoulderHeight"}
           /\ posture.type # "no-person"
                => /\ posture.slouchAngle
                        = Mean(smoothingBuffer.slouchAngles)
                   /\ posture.headTiltAngle
                        = Mean(smoothingBuffer.headTiltAngles)
                   /\ posture.shoulderAlignment
                        = Mean(smoothingBuffer.shoulderAlignments)
                   /\ posture.headYaw = Mean(smoothingBuffer.headYaws)
                   /\ posture.headPitch
                        = Mean(smoothingBuffer.headPitches)

\* a frame was analysed over buffers whose values differ
C26_Witness ==
  /\ out.op = "detectPose"
  /\ out.error = "none"
  /\ out.posture[1].type # "no-person"
  /\ Len(smoothingBuffer.slouchAngles) >= 2
  /\ smoothingBuffer.slouchAngles[1] # smoothingBuffer.slouchAngles[2]
  /\ Len(smoothingBuffer.shoulderHeights) >= 2

\* the visibility of an eye in hundredths, an absent one counting as 0
EyeVisibility(eye) ==
  IF eye.visibility = NoVisibility THEN 0 ELSE eye.visibility

\* the posture is one of the two verdicts of the eyes-invisible branch
EyesInvisibleVerdict(posture) ==
  /\ posture.type \in {"looking-away", "looking-down"}
  /\ 10 * posture.confidence = 9 * One

\* C27: a frame that passes the visibility gate is judged by the
\* eyes-invisible branch exactly when its left eye or its right eye has
\* visibility 0.6 or less, an absent visibility counting as 0, whatever
\* the average of the two is.
C27_BothEyesIndividually ==
  (/\ out.op = "detectPose"
   /\ out.error = "none"
   /\ out.landmarks # << >>
   /\ out.posture[1].type # "no-person")
    => (EyesInvisibleVerdict(out.posture[1])
          <=> \/ EyeVisibility(out.landmarks[1].leftEye) <= 60
              \/ EyeVisibility(out.landmarks[1].rightEye) <= 60)

\* one eye at 0.6 and the other at 0.9, 0.75 on average, judged by the
\* eyes-invisible branch
C27_Witness ==
  /\ out.op = "detectPose"
  /\ out.landmarks # << >>
  /\ EyeVisibility(out.landmarks[1].leftEye) <= 60
  /\ EyeVisibility(out.landmarks[1].leftEye)
       + EyeVisibility(out.landmarks[1].rightEye) > 2 * 60
  /\ EyesInvisibleVerdict(out.posture[1])

\* C28: a startCamera call whose getUserMedia request resolves before the
\* timeout while the component is mounted ends with state active and the
\* acquired stream held as the hook's stream, a start after an earlier
\* start and stop included.
C28_AsStated ==
  [][ (cameraMounted /\ GetUserMediaResolves)
        => (cameraState' = "active" /\ stream' = << obtained' >>) ]_vars

\* the first start of a mounted component does reach active
FirstStartReachesActive ==
  [][ (cameraMounted /\ obtained = 0 /\ GetUserMediaResolves)
        => (cameraState' = "active" /\ stream' = << obtained' >>) ]_vars

\* a second stream was acquired while mounted, after a stop, and the hook
\* stays in requesting without a stream
StuckRequesting ==
  /\ cameraMounted
  /\ obtained = 2
  /\ pending = 0
  /\ abandoned = 0
  /\ cameraState = "requesting"
  /\ stream = << >>

\* C29: every invocation of requestCameraPermission resolves to a boolean,
\* and to true when the camera permission is granted (on macOS the access
\* status is granted; the other platforms need no permission).
C29_AsStated ==
  [][ \A i \in Invocations :
        (ipcResult[i] = << >> /\ ipcResult'[i] # << >>)
          => /\ ipcResult'[i][1] \in {"true", "false"}
             /\ (platform # "darwin" \/ mediaAccess' = "granted")
                  => ipcResult'[i][1] = "true" ]_vars

\* C30: a non-null forwarded result implies that the hook is calibrated,
\* state and ref; a result is set only by a step that starts calibrated;
\* and clearCalibration on a mounted hook with a detector leaves the result
\* null, so no frame in flight sets it before a calibration succeeds.
C30_ResultsOnlyWhenCalibrated ==
  /\ [](hookResult # << >> => (isCalibrated /\ isCalibratedRef))
  /\ [][ /\ (hookResult' # << >> /\ hookResult' # hookResult)
             => (isCalibratedRef /\ isCalibratedRef')
         /\ (detectorRef /\ HookClearCalibration)
             => (hookResult' = << >> /\ ~isCalibrated' /\ ~isCalibratedRef')
       ]_vars

\* after results were forwarded the calibration was cleared, and a frame
\* submitted by the loop has come back since without being forwarded
C30_Witness ==
  /\ isMountedRef
  /\ state = "detecting"
  /\ ~isCalibrated
  /\ hookResult = << >>
  /\ lastUpdateRef # << >>
  /\ out.op = "detectPose"
  /\ out.path = "send"
  /\ out.landmarks # << >>
  /\ awaiting = "none"

\* a step of a calibration attempt of the hook
CalibrationStep ==
  \/ \E video \in {"playing", "paused"} : HookCalibrate(video)
  \/ PerformCalibrationContinues
  \/ /\ awaiting = "calibrate"
     /\ \/ HookSendRejects
        \/ \E landmarks \in HookFrames : HookSendResolves(landmarks)

\* the step ends the attempt without a new baseline
CalibrationFails ==
  /\ awaiting' # "calibrate"
  /\ microtask' # "calibrate"
  /\ ~(microtask = "calibrate" /\ calibrateHasGoodVisibility(out.landmarks[1]))

\* C31: a calibration attempt of the hook that fails sets an error message
\* and leaves the calibrated flag (state and ref), the calibration data and
\* the baseline of the detector as they were; no step of an attempt but
\* the successful last one changes them.
C31_FailedCalibrationKeeps ==
  [][ CalibrationStep
        => /\ CalibrationFails
               => /\ hookError' # "null"
                  /\ UNCHANGED << isCalibrated, isCalibratedRef,
                                  calibrationData, calibrationBaseline >>
           /\ ~CalibrationFails /\ microtask # "calibrate"
               => UNCHANGED << isCalibrated, isCalibratedRef,
                               calibrationData, calibrationBaseline >> ]_vars

\* a calibrated hook after a calibration the detector refused
C31_Witness ==
  /\ out.op = "calibrate"
  /\ out.error = "PersonNotVisible"
  /\ hookError = "PersonNotVisible"
  /\ isCalibrated
  /\ isCalibratedRef
  /\ calibrationData # << >>
  /\ calibrationBaseline = calibrationData

\* what the consumer of useCamera sees of a pause, resume or stop
cameraObservable == << cameraState, stream, cameraError >>

\* C32: pauseCamera changes the state, to paused, only with a stream held
\* and state active; resumeCamera changes it, to active, only with a stream
\* held and state paused; stopCamera with a stream held ends idle with
\* stream and error null; in every other state the three calls leave
\* state, stream and error unchanged.
C32_PauseResumeStopGuards ==
  [][ /\ PauseCamera
          => IF stream # << >> /\ cameraState = "active"
               THEN cameraState' = "paused"
                    /\ UNCHANGED << stream, cameraError >>
               ELSE UNCHANGED cameraObservable
      /\ ResumeCamera
          => IF stream # << >> /\ cameraState = "paused"
               THEN cameraState' = "active"
                    /\ UNCHANGED << stream, cameraError >>
               ELSE UNCHANGED cameraObservable
      /\ StopCamera
          => IF stream # << >>
               THEN cameraState' = "idle" /\ stream' = << >>
                    /\ cameraError' = "null"
               ELSE UNCHANGED cameraObservable ]_vars

\* a paused camera: the stream is held and its video track is disabled
C32_Witness ==
  /\ cameraState = "paused"
  /\ stream # << >>
  /\ stream[1] \in disabledStreams
  /\ pending = 0

\* C33: in every reachable state of the detector the six smoothing buffers
\* have the same length, and never more than the window holds.
C33_BuffersSameLength ==
  /\ DOMAIN smoothingBuffer =
       { "slouchAngles", "headTiltAngles", "shoulderAlignments",
         "shoulderHeights", "headYaws", "headPitches" }
  /\ \A name \in DOMAIN smoothingBuffer :
       /\ Len(smoothingBuffer[name]) = Len(smoothingBuffer.slouchAngles)
       /\ Len(smoothingBuffer[name]) <= SMOOTHING_WINDOW_SIZE

\* a calibrated detector whose buffers are full while a frame is in flight
C33_Witness ==
  /\ calibrationBaseline # << >>
  /\ inFlight > 0
  /\ \A name \in DOMAIN smoothingBuffer :
       Len(smoothingBuffer[name]) = SMOOTHING_WINDOW_SIZE

\* C34: for one detector at most one send to the pose source is in flight
\* at any time, under every interleaving of detectPose with dispose and a
\* later initialize.
C34_AsStated == inFlight <= 1

\* C35: stopDetection leaves the forwarded result null, and while the hook
\* is not detecting a null result stays null until startDetection runs,
\* whatever frame was in flight at the stop.
C35_AsStated ==
  [][ /\ StopDetection => hookResult' = << >>
      /\ (state # "detecting" /\ hookResult = << >>)
           => (hookResult' = << >> \/ state' = "detecting") ]_vars

\* C36: whenever the state of the hook is ready, idle, loading or error no
\* interval timer is installed.
C36_AsStated == state # "detecting" => timers = 0

\* C37: the calibrated flag of the hook, state and ref, is true exactly
\* when the detector holds a baseline, and the calibration data of the
\* hook is that baseline.
C37_FlagMatchesBaseline ==
  /\ isCalibrated <=> calibrationBaseline # << >>
  /\ isCalibratedRef <=> calibrationBaseline # << >>
  /\ calibrationData = calibrationBaseline

\* a hook that was calibrated, forwarded a result and was cleared
C37_Witness ==
  /\ out.op = "clearCalibration"
  /\ lastUpdateRef # << >>
  /\ ~isCalibrated
  /\ calibrationBaseline = << >>
  /\ awaiting = "none"
  /\ microtask = "none"

\* a step of detectPose: the call itself, or the completion of its send
DetectPoseStep ==
  \/ \E video \in {"playing", "noDimensions", "paused"} :
       DetectPoseCall(video)
  \/ SendRejects
  \/ \E landmarks \in {<< >>} \cup {<< f >> : f \in InterleavedFrames} :
       SendResolves(landmarks)

\* the values a buffer keeps when one more value is pushed to it
Kept(buffer) ==
  IF Len(buffer) >= SMOOTHING_WINDOW_SIZE THEN Tail(buffer) ELSE buffer

\* C38: a detectPose that returns no-person, for whatever reason, leaves
\* the six smoothing buffers unchanged; the first frame analysed after it
\* is pushed behind the values the buffers held, and its result averages
\* them in.
C38_NoPersonKeepsBuffers ==
  [][ (DetectPoseStep /\ out'.op = "detectPose" /\ out'.error = "none")
        => /\ out'.posture[1].type = "no-person"
               => UNCHANGED smoothingBuffer
           /\ (/\ out.op = "detectPose"
               /\ out.error = "none"
               /\ out.posture[1].type = "no-person"
               /\ out'.posture[1].type # "no-person")
               => \A name \in DOMAIN smoothingBuffer :
                    LET after == smoothingBuffer'[name]
                    IN  /\ after # << >>
                        /\ SubSeq(after, 1, Len(after) - 1)
                             = Kept(smoothingBuffer[name])
           /\ (out'.posture[1].type # "no-person")
               => out'.posture[1].slouchAngle
                    = Mean(smoothingBuffer'.slouchAngles) ]_vars

\* the pose source failed on a detector whose buffers hold values
C38_Witness ==
  /\ out.op = "detectPose"
  /\ out.path = "catch"
  /\ out.posture[1].type = "no-person"
  /\ smoothingBuffer.slouchAngles # << >>
  /\ Len(smoothingBuffer.slouchAngles) < SMOOTHING_WINDOW_SIZE

\* a frame of the detection loop has been processed: the detectPose call
\* that runDetection awaited returned
FrameProcessed ==
  /\ awaiting \in {"loop", "start"}
  /\ \/ HookSendRejects
     \/ \E landmarks \in HookFrames : HookSendResolves(landmarks)

\* C39: when no result is displayed while the loop is detecting and
\* calibrated, the next processed frame's result is forwarded, so the change
\* filter never compares against a result that is no longer displayed.
C39_AsStated ==
  [][ ( /\ state = "detecting"
        /\ isCalibratedRef
        /\ isMountedRef
        /\ hookResult = << >>
        /\ FrameProcessed )
        => hookResult' # << >> ]_vars

\* C40: every stream obtained from getUserMedia is the stream the camera
\* hook holds or has had its tracks stopped.
C40_AsStated ==
  \A id \in 1..obtained : stream = << id >> \/ id \in stoppedStreams

====
